---- MODULE Spec2Model ----
(***************************************************************************)
(* Model of the micro-turtle firmware core (itmarshall/microturtle).       *)
(*                                                                         *)
(* Part 1: the bytecode virtual machine of src/src/vm.c: run_program,      *)
(* stop_program, free_program, create_stack_frame, the instruction task    *)
(* vm_execute_task with every opcode, the operand stack, the task queue    *)
(* (system_os_post), the settling-pause timer and the VM's view of the     *)
(* motor and servo drivers of src/src/motors.c.                            *)
(*                                                                         *)
(* C integers keep their width.  A 32-bit word is the integer in           *)
(* -2^31 .. 2^31-1 with the same bits; AddW, SubW, MulW wrap as int32_t    *)
(* and uint32_t arithmetic does, ULt/ULe/UDivW read the bits as uint32_t,  *)
(* ToI16/ToU16 narrow to the parameters of drive_motors.  A word of an     *)
(* array that the code allocates without writing it is read as a value     *)
(* of Garbage and keeps it; reads past the end of an array yield a value   *)
(* of Garbage (GarbageBytes for code) and are recorded in ev.ub.           *)
(***************************************************************************)
EXTENDS Integers, Sequences, FiniteSets, TLC

(***************************************************************************)
(* Bounds of the model.                                                    *)
(***************************************************************************)
\* Number of stack-frame blocks the heap can hold before os_malloc fails.
MaxFrames == 3
\* Largest step count of a movement requested of the motion engine.
MaxSteps == 5
\* Largest configured acceleration duration, in ticks.
MaxAccelerationDuration == 8
\* Number of idle motor ticks followed after a movement.
MaxIdleTicks == 2
\* Number of drive_motors calls followed after start-up.
MaxCalls == 2
\* Largest configured servo_move_steps.
MaxServoSteps == 3
\* Number of servo_up / servo_down calls followed after the one init_motors
\* makes.
MaxServoCalls == 3
\* The int8_t angles tried as configured up and down angles.
ServoAngles == {-128, -91, -90, -45, 0, 60, 90, 127}

(***************************************************************************)
(* Program constants (src/src/vm.c, src/src/config.c).                     *)
(***************************************************************************)
MAX_VAR_COUNT == 32
MAX_STACK_SIZE == 32
MAX_FUNC_COUNT == 64
MAX_FUNC_LEN == 2048
EXEC_INSTR_QUEUE_LEN == 2
STEP_SEQUENCE_COUNT == 8
MAX_IDLE_COUNT == 5000

INSTR_FD == 1
INSTR_BK == 2
INSTR_LT == 3
INSTR_RT == 4
INSTR_PU == 5
INSTR_PD == 6
INSTR_IADD == 7
INSTR_ISUB == 8
INSTR_IMUL == 9
INSTR_IDIV == 10
INSTR_ICONST_0 == 11
INSTR_ICONST_1 == 12
INSTR_ICONST_45 == 13
INSTR_ICONST_90 == 14
INSTR_ICONST == 15
INSTR_ILOAD_0 == 16
INSTR_ILOAD_1 == 17
INSTR_ILOAD_2 == 18
INSTR_ILOAD == 19
INSTR_ISTORE_0 == 20
INSTR_ISTORE_1 == 21
INSTR_ISTORE_2 == 22
INSTR_ISTORE == 23
INSTR_GLOAD_0 == 24
INSTR_GLOAD_1 == 25
INSTR_GLOAD_2 == 26
INSTR_GLOAD == 27
INSTR_GSTORE_0 == 28
INSTR_GSTORE_1 == 29
INSTR_GSTORE_2 == 30
INSTR_GSTORE == 31
INSTR_ILT == 32
INSTR_ILE == 33
INSTR_IGT == 34
INSTR_IGE == 35
INSTR_IEQ == 36
INSTR_INE == 37
INSTR_CALL == 38
INSTR_RET == 39
INSTR_STOP == 40
INSTR_BR == 41
INSTR_BRT == 42
INSTR_BRF == 43
INSTR_FDRAW == 44
INSTR_BKRAW == 45
INSTR_LTRAW == 46
INSTR_RTRAW == 47

\* INSTR_LEN[] of vm.c; the C array is indexed from 0, this sequence from 1.
INSTR_LEN_TABLE ==
    << 0, 1, 1, 1, 1, 1, 1, 1, 1, 1, 1, 1, 1, 1, 1, 5,
       1, 1, 1, 5, 1, 1, 1, 5, 1, 1, 1, 5, 1, 1, 1, 5,
       1, 1, 1, 1, 1, 1, 5, 1, 1, 5, 5, 5 >>

DEFAULT_STRAIGHT_STEPS == 1729
DEFAULT_TURN_STEPS == 2052

(***************************************************************************)
(* C integer arithmetic.                                                   *)
(***************************************************************************)
W16 == 65536
W8 == 256
INT32_MAX == 2147483647
INT32_MIN == -INT32_MAX - 1

\* The two 16-bit halves of a word, and the word of two halves.
Hi(a) == (a \div W16) % W16
Lo(a) == a % W16
Word(hi, lo) == (IF hi >= W16 \div 2 THEN hi - W16 ELSE hi) * W16 + lo

\* a + b, -a, a - b in 32 bits.
AddW(a, b) ==
    LET lo == Lo(a) + Lo(b)
        hi == Hi(a) + Hi(b) + lo \div W16
    IN Word(hi % W16, lo % W16)
NegW(a) == IF a = INT32_MIN THEN INT32_MIN ELSE -a
SubW(a, b) == AddW(a, NegW(b))

\* u * v for 16-bit u and v: the low 16 bits, and both halves.
MulLo16(u, v) == (u * (v % W8) + ((u * (v \div W8)) % W8) * W8) % W16
Mul16(u, v) ==
    LET x == u * (v \div W8)
        t == (x % W8) * W8 + u * (v % W8)
    IN [hi |-> x \div W8 + t \div W16, lo |-> t % W16]

\* a * b in 32 bits (the same bits for int32_t and uint32_t operands).
MulW(a, b) ==
    LET p == Mul16(Lo(a), Lo(b))
    IN Word((p.hi + MulLo16(Hi(a), Lo(b)) + MulLo16(Lo(a), Hi(b))) % W16, p.lo)

\* a / d for a uint32_t a and a divisor 0 < d < 2^15.
UDivW(a, d) ==
    Word(Hi(a) \div d, ((Hi(a) % d) * W16 + Lo(a)) \div d)

\* a < b and a <= b for uint32_t a and b.
ULt(a, b) == IF (a < 0) = (b < 0) THEN a < b ELSE b < 0
ULe(a, b) == a = b \/ ULt(a, b)

ToU16(x) == x % W16
ToI16(x) == LET u == x % W16 IN IF u >= W16 \div 2 THEN u - W16 ELSE u

\* C's / on int32_t operands truncates toward zero; INT32_MIN / -1 wraps.
CDiv(a, b) ==
    IF a = INT32_MIN
    THEN (IF b = -1 THEN INT32_MIN
          ELSE IF b = 1 THEN INT32_MIN
          ELSE IF b < 0 THEN (INT32_MAX \div (-b)) + (IF (INT32_MAX % (-b)) + 1 = -b THEN 1 ELSE 0)
          ELSE -((INT32_MAX \div b) + (IF (INT32_MAX % b) + 1 = b THEN 1 ELSE 0)))
    ELSE IF b = INT32_MIN THEN 0
    ELSE LET aa == IF a < 0 THEN -a ELSE a
             bb == IF b < 0 THEN -b ELSE b
             q == aa \div bb
         IN IF (a < 0) = (b < 0) THEN q ELSE -q
\* The values an uninitialised or out-of-bounds data word may hold.
Garbage == {0, 7}
\* The values a byte read past the end of a function's code may hold.
GarbageBytes == {0, INSTR_ICONST_1, INSTR_STOP}

NULL == 0

(***************************************************************************)
(* Programs handed to run_program.  A program is a program_t of vm.h; a    *)
(* function is a function_t.  `length` is the length field of the record,  *)
(* `code` the bytes behind its code pointer.                               *)
(***************************************************************************)
\* The 4 bytes of a 32-bit immediate, most significant first.
I32(n) == << Hi(n) \div W8, Hi(n) % W8, Lo(n) \div W8, Lo(n) % W8 >>

Fn(id, args, locals, stack, code) ==
    [id |-> id, argument_count |-> args, local_count |-> locals,
     stack_size |-> stack, length |-> Len(code), code |-> code]

Prog(globals, functions) ==
    [global_count |-> globals, function_count |-> Len(functions),
     functions |-> functions]

\* main pushes 1, 45, 90 and calls f1(45, 90); f1 stores 45+90 in global 0
\* and calls f2, which draws a line of one unit; call depth 3.
PArgs ==
    Prog(1, <<
      Fn(0, 0, 1, 3, <<INSTR_ICONST_1, INSTR_ICONST_45, INSTR_ICONST_90,
                       INSTR_CALL>> \o I32(1) \o <<INSTR_ISTORE_0, INSTR_STOP>>),
      Fn(1, 2, 1, 2, <<INSTR_ILOAD_0, INSTR_ILOAD_1, INSTR_IADD,
                       INSTR_GSTORE_0, INSTR_CALL>> \o I32(2) \o <<INSTR_RET>>),
      Fn(2, 0, 0, 1, <<INSTR_PD, INSTR_ICONST_1, INSTR_FD, INSTR_PU,
                       INSTR_RET>>) >>)

\* main calls the one-argument f1 with an empty operand stack, then moves
\* forward by the distance popped from the (still empty) stack.
PUnderflow ==
    Prog(0, <<
      Fn(0, 0, 0, 1, <<INSTR_CALL>> \o I32(1) \o <<INSTR_FD, INSTR_STOP>>),
      Fn(1, 1, 0, 0, <<INSTR_RET>>) >>)

\* main pushes twice on an operand stack of one entry, then loads local 0
\* of a frame without locals.
POverflow ==
    Prog(0, <<
      Fn(0, 0, 0, 1, <<INSTR_ICONST_1, INSTR_ICONST_90, INSTR_ILOAD_0,
                       INSTR_STOP>>) >>)

\* main calls f1, which calls function 999 of a two-function program.
PBadCall ==
    Prog(0, <<
      Fn(0, 0, 0, 1, <<INSTR_CALL>> \o I32(1) \o <<INSTR_STOP>>),
      Fn(1, 0, 0, 1, <<INSTR_CALL>> \o I32(999) \o <<INSTR_RET>>) >>)

\* main calls function 0, function -1 being the alternative of PBadNeg.
PBadZero ==
    Prog(0, << Fn(0, 0, 0, 1, <<INSTR_CALL>> \o I32(0) \o <<INSTR_STOP>>) >>)

PBadNeg ==
    Prog(1, << Fn(0, 0, 0, 1, <<INSTR_CALL>> \o I32(-1) \o <<INSTR_STOP>>) >>)

\* One local and one global; every access uses index 1, the count itself.
POffByOne ==
    Prog(1, <<
      Fn(0, 0, 1, 2, <<INSTR_ICONST_45, INSTR_ISTORE_1, INSTR_GLOAD_1,
                       INSTR_GSTORE>> \o I32(1) \o <<INSTR_ILOAD>> \o I32(1)
                     \o <<INSTR_ISTORE_0, INSTR_ILOAD_0, INSTR_GSTORE_0,
                          INSTR_GLOAD>> \o I32(2) \o <<INSTR_STOP>>) >>)

\* Two locals, two globals: indices 0 and 1 in range, ILOAD_2 out of range.
PInRange ==
    Prog(2, <<
      Fn(0, 0, 2, 2, <<INSTR_ICONST_90, INSTR_ISTORE_1, INSTR_ILOAD_1,
                       INSTR_GSTORE_1, INSTR_GLOAD_1, INSTR_ISTORE>> \o I32(0)
                     \o <<INSTR_GLOAD_0, INSTR_GSTORE_0, INSTR_ILOAD_2,
                          INSTR_STOP>>) >>)

\* The id fields of the two function records are exchanged.
PIdSwap ==
    Prog(0, <<
      Fn(1, 0, 0, 1, <<INSTR_ICONST_1, INSTR_STOP>>),
      Fn(0, 0, 0, 1, <<INSTR_ICONST_0, INSTR_STOP>>) >>)

\* Every count at its maximum: 32 globals, 64 functions of 32 arguments,
\* 32 locals, 32 stack entries and 2048 bytes of code.
PMax ==
    [global_count |-> MAX_VAR_COUNT, function_count |-> MAX_FUNC_COUNT,
     functions |->
       [i \in 1..MAX_FUNC_COUNT |->
          [id |-> i - 1, argument_count |-> MAX_VAR_COUNT,
           local_count |-> MAX_VAR_COUNT, stack_size |-> MAX_STACK_SIZE,
           length |-> MAX_FUNC_LEN,
           code |-> [j \in 1..MAX_FUNC_LEN |-> INSTR_STOP]]]]

\* main fills its operand stack of 32 entries with 0, 1, 45, 90, 0, ... and
\* calls f1, which takes all 32 as arguments and returns.
PMaxArgs ==
    Prog(0, <<
      Fn(0, 0, 0, MAX_STACK_SIZE,
         [i \in 1..MAX_STACK_SIZE |->
            << INSTR_ICONST_0, INSTR_ICONST_1, INSTR_ICONST_45,
               INSTR_ICONST_90 >>[((i - 1) % 4) + 1]]
         \o <<INSTR_CALL>> \o I32(1) \o <<INSTR_STOP>>),
      Fn(1, MAX_VAR_COUNT, 0, 0, <<INSTR_RET>>) >>)

\* Programs that break exactly one validation rule of run_program.
PBadGlobals == [PBadZero EXCEPT !.global_count = MAX_VAR_COUNT + 1]
PNoFunctions == [PBadZero EXCEPT !.function_count = 0]
PManyFunctions == [PBadZero EXCEPT !.function_count = MAX_FUNC_COUNT + 1]
PBadArgs == [PArgs EXCEPT !.functions[2].argument_count = MAX_VAR_COUNT + 1]
PBadLocals == [PArgs EXCEPT !.functions[3].local_count = MAX_VAR_COUNT + 1]
PBadStack == [PArgs EXCEPT !.functions[1].stack_size = MAX_STACK_SIZE + 1]
PEmptyFn == [PArgs EXCEPT !.functions[2].length = 0]
PLongFn == [PArgs EXCEPT !.functions[3].length = MAX_FUNC_LEN + 1]

\* main ends without STOP or RET: after its one instruction the program
\* counter equals the length of the function.
PFallOff == Prog(0, << Fn(0, 0, 0, 1, <<INSTR_ICONST_1>>) >>)

\* The last instruction of main is an ICONST with 2 of its 4 immediate bytes.
PTruncated ==
    Prog(0, << Fn(0, 0, 0, 2, <<INSTR_ICONST_0, INSTR_ICONST, 0, 0>>) >>)

\* main calls f1, which ends without STOP or RET.
PFallOffCallee ==
    Prog(0, <<
      Fn(0, 0, 0, 1, <<INSTR_CALL>> \o I32(1) \o <<INSTR_STOP>>),
      Fn(1, 0, 0, 1, <<INSTR_ICONST_1>>) >>)

\* main calls f1, which executes STOP at call depth 2.
PStopDeep ==
    Prog(0, <<
      Fn(0, 0, 0, 1, <<INSTR_CALL>> \o I32(1) \o <<INSTR_STOP>>),
      Fn(1, 0, 0, 1, <<INSTR_STOP>>) >>)

\* A program of one function with one local, one global and one stack entry.
PFaulty(code) == Prog(1, << Fn(0, 0, 1, 1, code) >>)

ProgramNames ==
    << "PArgs", "PUnderflow", "POverflow", "PBadCall", "PBadZero", "PBadNeg",
       "POffByOne", "PInRange", "PIdSwap", "PMax", "PMaxArgs", "PBadGlobals",
       "PNoFunctions", "PManyFunctions", "PBadArgs", "PBadLocals",
       "PBadStack", "PEmptyFn", "PLongFn", "PFallOff", "PTruncated",
       "PFallOffCallee", "PRetMain", "PBadBranch", "PUnknown", "PBadLocal",
       "PBadGlobal", "PStopDeep", "PZeroMove", "PBranch", "PBranchEnd",
       "PTurns", "PRaw", "PLeftRaw", "PNarrow", "PNegative" >>

\* The program_t behind the pointer p.
Programs(p) ==
    CASE ProgramNames[p] = "PArgs" -> PArgs
      [] ProgramNames[p] = "PUnderflow" -> PUnderflow
      [] ProgramNames[p] = "POverflow" -> POverflow
      [] ProgramNames[p] = "PBadCall" -> PBadCall
      [] ProgramNames[p] = "PBadZero" -> PBadZero
      [] ProgramNames[p] = "PBadNeg" -> PBadNeg
      [] ProgramNames[p] = "POffByOne" -> POffByOne
      [] ProgramNames[p] = "PInRange" -> PInRange
      [] ProgramNames[p] = "PIdSwap" -> PIdSwap
      [] ProgramNames[p] = "PMax" -> PMax
      [] ProgramNames[p] = "PMaxArgs" -> PMaxArgs
      [] ProgramNames[p] = "PBadGlobals" -> PBadGlobals
      [] ProgramNames[p] = "PNoFunctions" -> PNoFunctions
      [] ProgramNames[p] = "PManyFunctions" -> PManyFunctions
      [] ProgramNames[p] = "PBadArgs" -> PBadArgs
      [] ProgramNames[p] = "PBadLocals" -> PBadLocals
      [] ProgramNames[p] = "PBadStack" -> PBadStack
      [] ProgramNames[p] = "PEmptyFn" -> PEmptyFn
      [] ProgramNames[p] = "PLongFn" -> PLongFn
      [] ProgramNames[p] = "PFallOff" -> PFallOff
      [] ProgramNames[p] = "PTruncated" -> PTruncated
      [] ProgramNames[p] = "PFallOffCallee" -> PFallOffCallee
      [] ProgramNames[p] = "PRetMain" -> PFaulty(<<INSTR_RET>>)
      [] ProgramNames[p] = "PBadBranch" -> PFaulty(<<INSTR_BR>> \o I32(99))
      [] ProgramNames[p] = "PUnknown" -> PFaulty(<<INSTR_RTRAW + 1>>)
      [] ProgramNames[p] = "PBadLocal" -> PFaulty(<<INSTR_ILOAD_2, INSTR_STOP>>)
      [] ProgramNames[p] = "PBadGlobal" -> PFaulty(<<INSTR_GLOAD_2, INSTR_STOP>>)
      [] ProgramNames[p] = "PStopDeep" -> PStopDeep
      [] ProgramNames[p] = "PZeroMove" ->
            Prog(0, << Fn(0, 0, 0, 1, <<INSTR_ICONST_1, INSTR_FD, INSTR_PD,
                                        INSTR_ICONST_0, INSTR_LT, INSTR_STOP>>) >>)
      \* BRF and BRT that fall through (offsets 1 and 7), BRT, BRF and BR
      \* that jump over a STOP (13, 20, 26), and a BRT beyond the function.
      [] ProgramNames[p] = "PBranch" ->
            PFaulty(<<INSTR_ICONST_1, INSTR_BRF>> \o I32(18)
                    \o <<INSTR_ICONST_0, INSTR_BRT>> \o I32(18)
                    \o <<INSTR_ICONST_1, INSTR_BRT>> \o I32(19) \o <<INSTR_STOP>>
                    \o <<INSTR_ICONST_0, INSTR_BRF>> \o I32(26) \o <<INSTR_STOP>>
                    \o <<INSTR_BR>> \o I32(32) \o <<INSTR_STOP>>
                    \o <<INSTR_ICONST_1, INSTR_BRT>> \o I32(99))
      \* A BR over a STOP, then a BRF to the length of the function.
      [] ProgramNames[p] = "PBranchEnd" ->
            PFaulty(<<INSTR_BR>> \o I32(6) \o <<INSTR_STOP, INSTR_ICONST_0,
                      INSTR_BRF>> \o I32(12))
      \* Back by 1, left and right by 1 degree, back by 1 and 2 raw steps.
      [] ProgramNames[p] = "PTurns" ->
            Prog(0, << Fn(0, 0, 0, 2,
                          <<INSTR_ICONST_1, INSTR_BK, INSTR_ICONST_1, INSTR_LT,
                            INSTR_ICONST_1, INSTR_RT, INSTR_ICONST_1,
                            INSTR_ICONST>> \o I32(2)
                          \o <<INSTR_BKRAW, INSTR_STOP>>) >>)
      [] ProgramNames[p] = "PRaw" ->
            Prog(0, << Fn(0, 0, 0, 2, <<INSTR_ICONST_1, INSTR_ICONST_1,
                                        INSTR_FDRAW, INSTR_STOP>>) >>)
      [] ProgramNames[p] = "PLeftRaw" ->
            Prog(0, << Fn(0, 0, 0, 2, <<INSTR_ICONST>> \o I32(2)
                                      \o <<INSTR_ICONST_1, INSTR_LTRAW,
                                           INSTR_STOP>>) >>)
      \* A raw step count that does not fit 16 bits.
      [] ProgramNames[p] = "PNarrow" ->
            Prog(0, << Fn(0, 0, 0, 2, <<INSTR_ICONST>> \o I32(W16 + 1)
                                      \o <<INSTR_ICONST_1, INSTR_RTRAW,
                                           INSTR_STOP>>) >>)
      \* A negative distance.
      [] ProgramNames[p] = "PNegative" ->
            Prog(0, << Fn(0, 0, 0, 1, <<INSTR_ICONST>> \o I32(-1364)
                                      \o <<INSTR_FD, INSTR_STOP>>) >>)

\* The pointer to the program of a given name.
Ptr(name) == CHOOSE p \in 1..Len(ProgramNames) : ProgramNames[p] = name

\* What run_program is handed while programs execute: the programs that
\* pass its validation.
ValidPtr ==
    { Ptr(n) : n \in {"PArgs", "PUnderflow", "POverflow", "PBadCall", "PBadZero",
                      "PBadNeg", "POffByOne", "PInRange", "PIdSwap", "PMax",
                      "PMaxArgs", "PStopDeep"} }

\* What run_program is handed where its validation is examined: NULL, the
\* programs that break one rule each, and programs at both ends of the rules.
LoadPtr ==
    {0} \cup
    { Ptr(n) : n \in {"PBadGlobals", "PNoFunctions", "PManyFunctions",
                      "PBadArgs", "PBadLocals", "PBadStack", "PEmptyFn",
                      "PLongFn", "PMax", "PBadZero", "PArgs"} }

\* What run_program is handed where faults of a running program are
\* examined: programs that run into one fault each.
FaultPtr ==
    { Ptr(n) : n \in {"PFallOff", "PTruncated", "PFallOffCallee", "PRetMain",
                      "PBadBranch", "PUnknown", "PBadLocal", "PBadGlobal",
                      "PBadZero", "PMaxArgs"} }

\* function_t programs[p].functions[f], f counted from 0 as in C.
Function(p, f) == Programs(p).functions[f + 1]

(***************************************************************************)
(* State.                                                                  *)
(***************************************************************************)
VARIABLES
    program_status,  \* prog_status_t program_status: "IDLE", "RUNNING", "ERROR"
    program,         \* program_t *program: NULL or an index of Programs
    heap,            \* the stack_frame_t blocks of the heap, by address
    stack,           \* stack_frame_t *stack: the head of the frame chain
    sp,              \* stack_frame_t *sp: the current frame
    globals,         \* global_t globals
    queue,           \* number of events posted to vm_exec_queue, not yet run
    pause_armed,     \* move_pause_timer is armed
    motor,           \* the state of the stepper driver the VM commands
    servo,           \* the state of the servo driver the VM commands
    ev,              \* what the last operation did (observation, not state
                     \* of the program): its inputs, result and faults
    engine           \* the motion engine of motors.c in full: its variables
                     \* and what its ticks have done since the last request

vars ==
    << program_status, program, heap, stack, sp, globals, queue,
       pause_armed, motor, servo, ev, engine >>

Addr == 1..MaxFrames

\* What a CALL records about its caller, to compare at the matching RET.
NoSnap ==
    [func |-> 0, idx |-> 0, stack_size |-> 0, stack |-> <<>>, locals |-> <<>>,
     k |-> 0, caller |-> NULL]

\* A heap block that holds no frame.
FreeFrame ==
    [used |-> FALSE, pc |-> [func |-> 0, idx |-> 0], local_count |-> 0,
     locals |-> <<>>, written |-> {}, stack_size |-> 0, max_stack_size |-> 0,
     stack |-> <<>>, prev |-> NULL, next |-> NULL, snap |-> NoSnap]

NoGlobals == [global_count |-> 0, values |-> <<>>, written |-> {}]

\* The observation of an operation that has done nothing yet.
Ev(op) ==
    [op |-> op, prog |-> NULL, ret |-> "void", opcode |-> -1, imm |-> 0,
     fault |-> "none", log |-> {}, ub |-> {}, posts |-> 0, pre_sp |-> NULL,
     snap |-> NoSnap, drive |-> <<>>]

\* The program state as one record, threaded through the operations.
State ==
    [program_status |-> program_status, program |-> program, heap |-> heap,
     stack |-> stack, sp |-> sp, globals |-> globals, queue |-> queue,
     pause_armed |-> pause_armed, motor |-> motor, servo |-> servo, ev |-> ev]

Becomes(s) ==
    \E t \in {s} :
        /\ program_status' = t.program_status
        /\ program' = t.program
        /\ heap' = t.heap
        /\ stack' = t.stack
        /\ sp' = t.sp
        /\ globals' = t.globals
        /\ queue' = t.queue
        /\ pause_armed' = t.pause_armed
        /\ motor' = t.motor
        /\ servo' = t.servo
        /\ ev' = t.ev
        /\ engine' = engine

Log(s, what) == [s EXCEPT !.ev.log = @ \cup {what}]
Undefined(s, what) == [s EXCEPT !.ev.ub = @ \cup {what}]

(***************************************************************************)
(* The drivers of src/src/motors.c, as far as the VM commands them.        *)
(* vm.c calls drive_motors(left, right, ticks, cb) as include/motors.h     *)
(* declares it: a movement without acceleration.                           *)
(***************************************************************************)
MotorIdle == [total_ticks |-> 0, total_steps |-> 0, current_tick |-> 0, motor_cb |-> "NULL"]

Abs(x) == IF x < 0 THEN -x ELSE x
Max2(a, b) == IF a < b THEN b ELSE a

\* drive_motors without acceleration: the parameters are int16_t, int16_t and
\* uint16_t.  Of the driver's variables the model keeps those that decide
\* when the movement ends; phase_tick equals current_tick during a movement.
drive_motors(s, left32, right32, ticks32, cb) ==
    LET left_steps == ToI16(left32)
        right_steps == ToI16(right32)
        tick_count == ToU16(ticks32)
        m0 == [total_ticks |-> 0, total_steps |-> 0, current_tick |-> 0,
               motor_cb |-> cb]
        steps == Max2(Abs(left_steps), Abs(right_steps))
    IN IF left_steps = 0 /\ right_steps = 0
       THEN [s EXCEPT !.motor = m0]
       ELSE [s EXCEPT !.motor =
               [m0 EXCEPT !.total_steps = steps, !.total_ticks = tick_count]]

\* end_move_pause: arms the one-shot move_pause_timer.
end_move_pause(s) == [s EXCEPT !.pause_armed = TRUE]

\* servo_up / servo_down: set_servo arms the servo timer; the pen position is
\* published at once.
servo_move(s, pos) ==
    [s EXCEPT !.servo = [servo_pos |-> pos, timer_armed |-> TRUE]]

\* execute_instruction: system_os_post fails when the queue is full.
execute_instruction(s) ==
    IF s.queue < EXEC_INSTR_QUEUE_LEN
    THEN [s EXCEPT !.queue = @ + 1, !.ev.posts = @ + 1]
    ELSE Log(s, "post_dropped")

(***************************************************************************)
(* Heap and frames.                                                        *)
(***************************************************************************)
FreeAddrs(h) == {a \in Addr : ~h[a].used}
AllocatedFrames(h) == {a \in Addr : h[a].used}

\* os_malloc of a stack_frame_t: a free block, or NULL when there is none.
os_malloc_frame(h) ==
    IF FreeAddrs(h) = {} THEN NULL
    ELSE CHOOSE a \in FreeAddrs(h) : \A b \in FreeAddrs(h) : a <= b

\* os_free of a frame together with its locals and operand-stack arrays.
os_free_frame(h, a) == [h EXCEPT ![a] = FreeFrame]

\* The os_malloc that returns NULL during one operation, if any: one of the
\* three of create_stack_frame ("frame"), or that of the globals array.
AllocFail == {"none", "frame", "globals"}

\* A create_stack_frame that does not free the frame record when the
\* os_malloc of its locals or of its operand stack fails.
create_stack_frame_leaking(s, function, fail) ==
    LET a == os_malloc_frame(s.heap)
    IN IF a = NULL
       THEN [s |-> Log(s, "alloc_failed"), sf |-> NULL]
       ELSE IF fail = "frame"
       THEN [s |-> Log([s EXCEPT !.heap[a] = [FreeFrame EXCEPT !.used = TRUE]],
                       "alloc_failed"),
             sf |-> NULL]
       ELSE [s |-> [s EXCEPT !.heap[a] =
                      [used |-> TRUE,
                       pc |-> [func |-> function.id, idx |-> 0],
                       local_count |-> function.argument_count + function.local_count,
                       locals |-> [i \in 1..function.argument_count
                                                + function.local_count |-> 0],
                       written |-> {},
                       stack_size |-> 0,
                       max_stack_size |-> function.stack_size,
                       stack |-> [i \in 1..function.stack_size |-> 0],
                       prev |-> NULL, next |-> NULL, snap |-> NoSnap]],
             sf |-> a]

\* create_stack_frame: the frame's address, or NULL.
create_stack_frame(s, function, fail) ==
    LET a == os_malloc_frame(s.heap)
        local_count == function.argument_count + function.local_count
        sf == [used |-> TRUE,
               pc |-> [func |-> function.id, idx |-> 0],
               local_count |-> local_count,
               locals |-> [i \in 1..local_count |-> 0],
               written |-> {},
               stack_size |-> 0,
               max_stack_size |-> function.stack_size,
               stack |-> [i \in 1..function.stack_size |-> 0],
               prev |-> NULL, next |-> NULL, snap |-> NoSnap]
    IN IF \/ a = NULL
          \/ fail = "frame"
       THEN [s |-> Log(s, "alloc_failed"), sf |-> NULL]
       ELSE [s |-> [s EXCEPT !.heap[a] = sf], sf |-> a]

\* Line 281 of free_program: the value `stack` has at the end of one round
\* of the loop that frees the frames, `next` being the freed frame's successor.
FreeLoopStack(next) == NULL

\* The while loop of free_program.
RECURSIVE FreeStackLoop(_, _)
FreeStackLoop(h, st) ==
    IF st = NULL THEN h
    ELSE FreeStackLoop(os_free_frame(h, st), FreeLoopStack(h[st].next))

\* A frame the loop has not freed when free_program ends, no pointer of the
\* program leading to it any more: it stays allocated for ever and is never
\* read again, so the model keeps of it only that it is allocated.
Lost(h) ==
    [a \in Addr |-> IF h[a].used THEN [FreeFrame EXCEPT !.used = TRUE] ELSE h[a]]

\* free_program without its last lines, which free the globals array.
free_program_frames_only(s) ==
    [s EXCEPT !.ev.log = @ \cup {"free_program"},
              !.program = NULL,
              !.heap = Lost(FreeStackLoop(s.heap, s.stack)),
              !.stack = NULL,
              !.sp = NULL]

\* free_program
free_program(s) ==
    [s EXCEPT !.ev.log = @ \cup {"free_program"},
              !.program = NULL,
              !.heap = Lost(FreeStackLoop(s.heap, s.stack)),
              !.stack = NULL,
              !.sp = NULL,
              !.globals = NoGlobals]

\* stop_program
stop_program(s) ==
    LET s1 == [s EXCEPT !.program_status = "IDLE"]
        s2 == drive_motors(s1, 0, 0, 1, "NULL")
        s3 == execute_instruction(s2)
    IN Log(Log(s3, "motors_stopped"), "notify_stopped")

\* program_error
program_error(s, what) ==
    free_program([s EXCEPT !.program_status = "ERROR", !.ev.fault = what])

(***************************************************************************)
(* run_program                                                             *)
(***************************************************************************)
\* The validity checks of run_program, lines 179-220, in the order of the code.
Rejects(prog) ==
    \/ prog = NULL
    \/ Programs(prog).global_count > MAX_VAR_COUNT
    \/ Programs(prog).function_count > MAX_FUNC_COUNT
    \/ Programs(prog).function_count = 0
    \/ \E ii \in 1..Programs(prog).function_count :
          LET f == Programs(prog).functions[ii]
          IN \/ f.argument_count > MAX_VAR_COUNT
             \/ f.local_count > MAX_VAR_COUNT
             \/ f.stack_size > MAX_STACK_SIZE
             \/ f.length > MAX_FUNC_LEN
             \/ f.length = 0

\* The value run_program returns when control reaches the end of its body,
\* which has no return statement: any value of the return register.
NoReturnValue == {"true", "false"}

run_program(s, prog, fail, ret) ==
    LET s1 == IF s.program_status = "RUNNING" THEN stop_program(s) ELSE s
        s2 == [s1 EXCEPT !.program_status = "IDLE", !.ev.prog = prog]
        s3 == free_program(s2)
        s4 == [s3 EXCEPT !.program = prog]
        cr == create_stack_frame(s4, Function(prog, 0), fail)
        s5 == [cr.s EXCEPT !.stack = cr.sf, !.sp = cr.sf]
        gc == Programs(prog).global_count
        s6 == [s5 EXCEPT !.globals =
                 [global_count |-> gc, values |-> [i \in 1..gc |-> 0],
                  written |-> {}]]
        s7 == execute_instruction([s6 EXCEPT !.program_status = "RUNNING"])
    IN IF Rejects(prog)
       THEN [s2 EXCEPT !.ev.ret = "false"]
       ELSE IF cr.sf = NULL
       THEN [free_program([cr.s EXCEPT !.stack = NULL]) EXCEPT !.ev.ret = "false"]
       ELSE IF gc > 0 /\ fail = "globals"
       THEN [free_program(
               Log([s5 EXCEPT !.globals.global_count = gc], "alloc_failed"))
             EXCEPT !.ev.ret = "false"]
       ELSE [s7 EXCEPT !.ev.ret = ret]

(***************************************************************************)
(* The operand stack of the current frame.                                 *)
(***************************************************************************)
Cur(s) == s.heap[s.sp]

\* A stack_push without the test of stack_size against max_stack_size.
stack_push_unchecked(s, val) ==
    IF s.sp = NULL THEN Log(s, "no_stack")
    ELSE [s EXCEPT !.heap[s.sp].stack[Cur(s).stack_size + 1] = val,
                   !.heap[s.sp].stack_size = @ + 1]

\* stack_push: a push on a full stack is logged and dropped.
stack_push(s, val) ==
    IF s.sp = NULL THEN Log(s, "no_stack")
    ELSE IF Cur(s).stack_size >= Cur(s).max_stack_size
    THEN Log(s, "overflow")
    ELSE [s EXCEPT !.heap[s.sp].stack[Cur(s).stack_size + 1] = val,
                   !.heap[s.sp].stack_size = @ + 1]

\* stack_pop: a pop from an empty stack is logged and yields 0.
stack_pop(s) ==
    IF s.sp = NULL THEN [s |-> Log(s, "no_stack"), v |-> 0]
    ELSE IF Cur(s).stack_size = 0
    THEN [s |-> Log(s, "underflow"), v |-> 0]
    ELSE [s |-> [s EXCEPT !.heap[s.sp].stack_size = @ - 1],
          v |-> Cur(s).stack[Cur(s).stack_size]]

(***************************************************************************)
(* Decoding.                                                               *)
(***************************************************************************)
\* BYTES_TO_INT32
BYTES_TO_INT32(arr, idx) ==
    Word(arr[idx + 1] * W8 + arr[idx + 2], arr[idx + 3] * W8 + arr[idx + 4])

\* INSTR_LEN[i]; a read past the table yields whatever follows it.
INSTR_LEN(i, g) == IF i < Len(INSTR_LEN_TABLE) THEN INSTR_LEN_TABLE[i + 1] ELSE g

\* The function whose code the current frame executes.
CurFunction(s) == Function(s.program, Cur(s).pc.func)

\* The opcodes that a 32-bit immediate follows.
Immediates ==
    {INSTR_ICONST, INSTR_ILOAD, INSTR_ISTORE, INSTR_GLOAD, INSTR_GSTORE,
     INSTR_CALL, INSTR_BR, INSTR_BRT, INSTR_BRF}

\* The 32-bit immediate after the opcode at the program counter.
Immediate(s, g) ==
    IF Cur(s).pc.idx + 5 <= CurFunction(s).length
    THEN BYTES_TO_INT32(CurFunction(s).code, Cur(s).pc.idx + 1)
    ELSE g

\* What one instruction leaves behind for the end of vm_execute_task.
Step(s, auto_update_pc, defer_next_instr) ==
    [s |-> s, auto_update_pc |-> auto_update_pc,
     defer_next_instr |-> defer_next_instr, returned |-> FALSE]
Return(s) ==
    [s |-> s, auto_update_pc |-> FALSE, defer_next_instr |-> TRUE,
     returned |-> TRUE]

(***************************************************************************)
(* Motor and pen instructions.                                             *)
(***************************************************************************)
straight_steps == [left |-> DEFAULT_STRAIGHT_STEPS, right |-> DEFAULT_STRAIGHT_STEPS]
turn_steps == [left |-> DEFAULT_TURN_STEPS, right |-> DEFAULT_TURN_STEPS]

\* operand * scale / divisor with a uint32_t scale: unsigned arithmetic,
\* stored in an int32_t.
Scale(operand, scale, divisor) == UDivW(MulW(operand, scale), divisor)

\* The call drive_motors(sl * operand1, sr * operand2, MAX(operand1, operand2),
\* end_move_pause) that ends every motor instruction.
Drive(s, operand1, operand2, sl, sr) ==
    LET l == MulW(sl, operand1)
        r == MulW(sr, operand2)
        t == Max2(operand1, operand2)
        s1 == drive_motors(s, l, r, t, "end_move_pause")
    IN Step([s1 EXCEPT !.ev.drive = <<l, r, t>>], TRUE, TRUE)

\* FD, BK, LT, RT
ScaledMove(s, scales, divisor, sl, sr) ==
    LET p == stack_pop(s)
    IN Drive(p.s, Scale(p.v, scales.left, divisor),
             Scale(p.v, scales.right, divisor), sl, sr)

\* FDRAW, BKRAW, LTRAW, RTRAW
RawMove(s, sl, sr) ==
    LET p2 == stack_pop(s)
        p1 == stack_pop(p2.s)
    IN Drive(p1.s, p1.v, p2.v, sl, sr)

\* PU, PD
PenMove(s, pos) == Step(end_move_pause(servo_move(s, pos)), TRUE, TRUE)

(***************************************************************************)
(* Arithmetic and comparison instructions.                                 *)
(***************************************************************************)
Lt(a, b) == IF a < b THEN 1 ELSE 0
Le(a, b) == IF a <= b THEN 1 ELSE 0
Gt(a, b) == IF a > b THEN 1 ELSE 0
Ge(a, b) == IF a >= b THEN 1 ELSE 0
Eq(a, b) == IF a = b THEN 1 ELSE 0
Ne(a, b) == IF a # b THEN 1 ELSE 0

\* The value an instruction with two operands pushes.
Operate(opcode, operand1, operand2) ==
    CASE opcode = INSTR_IADD -> AddW(operand1, operand2)
      [] opcode = INSTR_ISUB -> SubW(operand1, operand2)
      [] opcode = INSTR_IMUL -> MulW(operand1, operand2)
      [] opcode = INSTR_ILT -> Lt(operand1, operand2)
      [] opcode = INSTR_ILE -> Le(operand1, operand2)
      [] opcode = INSTR_IGT -> Gt(operand1, operand2)
      [] opcode = INSTR_IGE -> Ge(operand1, operand2)
      [] opcode = INSTR_IEQ -> Eq(operand1, operand2)
      [] opcode = INSTR_INE -> Ne(operand1, operand2)

Binary(s, opcode) ==
    LET p2 == stack_pop(s)
        p1 == stack_pop(p2.s)
    IN Step(stack_push(p1.s, Operate(opcode, p1.v, p2.v)), TRUE, FALSE)

\* IDIV: a division by zero has no defined result.
Divide(s, g) ==
    LET p2 == stack_pop(s)
        p1 == stack_pop(p2.s)
    IN IF p2.v = 0
       THEN Step(stack_push(Undefined(p1.s, "div_by_zero"), g), TRUE, FALSE)
       ELSE Step(stack_push(p1.s, CDiv(p1.v, p2.v)), TRUE, FALSE)

(***************************************************************************)
(* Local and global variable instructions.                                 *)
(***************************************************************************)
\* The guard of ILOAD*/ISTORE* for variable n (n = 0: only the NULL test).
LocalIndexOk(f, n) == f.locals # <<>> /\ ULe(n, f.local_count)

\* The guard of GLOAD*/GSTORE* for variable n.
GlobalIndexOk(gl, n) == gl.values # <<>> /\ ULe(n, gl.global_count)

\* The word arr[n] as a read finds it: g when it was never written or lies
\* past the end of the array.
ReadWord(arr, written, n, g) ==
    IF n < Len(arr) /\ n \in written THEN arr[n + 1] ELSE g

\* ILOAD_0, ILOAD_1, ILOAD_2, ILOAD n
LoadLocal(s, n, g) ==
    LET f == Cur(s)
        v == ReadWord(f.locals, f.written, n, g)
        s1 == IF n < Len(f.locals)
              THEN [s EXCEPT !.heap[s.sp].locals[n + 1] = v,
                             !.heap[s.sp].written = @ \cup {n}]
              ELSE Undefined(s, "local_read_out_of_bounds")
    IN IF LocalIndexOk(f, n)
       THEN Step(stack_push(s1, v), TRUE, FALSE)
       ELSE Step(program_error(s, "local"), TRUE, FALSE)

\* ISTORE_0, ISTORE_1, ISTORE_2, ISTORE n
StoreLocal(s, n) ==
    LET f == Cur(s)
        p == stack_pop(s)
    IN IF LocalIndexOk(f, n)
       THEN IF n < Len(f.locals)
            THEN Step([p.s EXCEPT !.heap[s.sp].locals[n + 1] = p.v,
                                  !.heap[s.sp].written = @ \cup {n}],
                      TRUE, FALSE)
            ELSE Step(Undefined(p.s, "local_write_out_of_bounds"), TRUE, FALSE)
       ELSE Step(program_error(s, "local"), TRUE, FALSE)

\* GLOAD_0, GLOAD_1, GLOAD_2, GLOAD n
LoadGlobal(s, n, g) ==
    LET v == ReadWord(s.globals.values, s.globals.written, n, g)
        s1 == IF n < Len(s.globals.values)
              THEN [s EXCEPT !.globals.values[n + 1] = v,
                             !.globals.written = @ \cup {n}]
              ELSE Undefined(s, "global_read_out_of_bounds")
    IN IF GlobalIndexOk(s.globals, n)
       THEN Step(stack_push(s1, v), TRUE, FALSE)
       ELSE Step(program_error(s, "global"), TRUE, FALSE)

\* GSTORE_0, GSTORE_1, GSTORE_2, GSTORE n
StoreGlobal(s, n) ==
    LET p == stack_pop(s)
    IN IF GlobalIndexOk(s.globals, n)
       THEN IF n < Len(s.globals.values)
            THEN Step([p.s EXCEPT !.globals.values[n + 1] = p.v,
                                  !.globals.written = @ \cup {n}],
                      TRUE, FALSE)
            ELSE Step(Undefined(p.s, "global_write_out_of_bounds"), TRUE, FALSE)
       ELSE Step(program_error(s, "global"), TRUE, FALSE)

(***************************************************************************)
(* CALL, RET, STOP and the branches.                                       *)
(***************************************************************************)
\* The test of INSTR_CALL that rejects the function id.
BadFunctionId(id, function_count) == id <= 0 \/ ULe(function_count, id)

\* The loop of INSTR_CALL run from slot 0 upwards: the first value popped
\* goes to slot 0.
RECURSIVE CopyArgumentsAscending(_, _, _)
CopyArgumentsAscending(s, sf, ii) ==
    IF ii < 0 THEN s
    ELSE LET p == stack_pop(s)
             slot == Cardinality(s.heap[sf].written)
         IN CopyArgumentsAscending(
                [p.s EXCEPT !.heap[sf].locals[slot + 1] = p.v,
                            !.heap[sf].written = @ \cup {slot}],
                sf, ii - 1)

\* The loop of INSTR_CALL that pops the arguments into sf's locals, from
\* ii = argument_count - 1 down to 0.
RECURSIVE CopyArguments(_, _, _)
CopyArguments(s, sf, ii) ==
    IF ii < 0 THEN s
    ELSE LET p == stack_pop(s)
         IN CopyArguments([p.s EXCEPT !.heap[sf].locals[ii + 1] = p.v,
                                      !.heap[sf].written = @ \cup {ii}],
                          sf, ii - 1)

\* INSTR_CALL
Call(s, id, fail) ==
    LET caller == Cur(s)
        s1 == [s EXCEPT !.heap[s.sp].pc.idx = @ + INSTR_LEN(INSTR_CALL, 0)]
        callee == Function(s.program, id)
        cr == create_stack_frame(s1, callee, fail)
        sf == cr.sf
        s2 == CopyArguments(cr.s, sf, callee.argument_count - 1)
        s3 == [s2 EXCEPT !.heap[sf].prev = s.sp,
                         !.heap[sf].snap =
                            [func |-> caller.pc.func, idx |-> caller.pc.idx,
                             stack_size |-> caller.stack_size,
                             stack |-> caller.stack, locals |-> caller.locals,
                             k |-> callee.argument_count, caller |-> s.sp],
                         !.heap[s.sp].next = sf,
                         !.sp = sf]
    IN IF BadFunctionId(id, Programs(s.program).function_count)
       THEN Return(program_error(s, "call"))
       ELSE IF sf = NULL
       THEN Return(program_error(cr.s, "call_alloc"))
       ELSE Step(s3, FALSE, FALSE)

\* INSTR_RET without the three os_free calls of lines 717-723.
RetWithoutFree(s) ==
    LET prev == Cur(s).prev
    IN IF prev = NULL
       THEN Return(program_error(s, "ret_main"))
       ELSE Step([s EXCEPT !.sp = prev, !.heap[prev].next = NULL,
                           !.ev.snap = Cur(s).snap], FALSE, FALSE)

\* INSTR_RET without sp->next = NULL of line 713: the caller keeps pointing
\* at the frame that is freed.
RetKeepingTheCallee(s) ==
    LET sf == s.sp
        prev == Cur(s).prev
        s1 == [s EXCEPT !.sp = prev, !.ev.snap = Cur(s).snap]
    IN IF prev = NULL
       THEN Return(program_error(s, "ret_main"))
       ELSE Step([s1 EXCEPT !.heap = os_free_frame(@, sf)], FALSE, FALSE)

\* INSTR_RET
Ret(s) ==
    LET sf == s.sp
        prev == Cur(s).prev
        s1 == [s EXCEPT !.sp = prev,
                        !.heap[prev].next = NULL,
                        !.ev.snap = Cur(s).snap]
    IN IF prev = NULL
       THEN Return(program_error(s, "ret_main"))
       ELSE Step([s1 EXCEPT !.heap = os_free_frame(@, sf)], FALSE, FALSE)

\* A target test that also refuses the length of the function itself.
BadBranchAtLength(addr, length) == ULe(length, addr)

\* The target test of INSTR_BR, INSTR_BRT and INSTR_BRF.
BadBranch(addr, length) == ULt(length, addr)

\* INSTR_BR, and a taken INSTR_BRT or INSTR_BRF
Branch(s, imm) ==
    LET addr == imm
    IN IF BadBranch(addr, CurFunction(s).length)
       THEN Return(program_error(s, "branch"))
       ELSE Step([s EXCEPT !.heap[s.sp].pc.idx = addr], FALSE, FALSE)

\* INSTR_BRT (when = TRUE) and INSTR_BRF (when = FALSE)
BranchIf(s, imm, when) ==
    LET p == stack_pop(s)
    IN IF (p.v # 0) = when THEN Branch(p.s, imm) ELSE Step(p.s, TRUE, FALSE)

(***************************************************************************)
(* Timers.                                                                 *)
(***************************************************************************)
\* motor_timer_cb for a movement without acceleration: one tick of the
\* CRUISING phase; the last tick completes the movement and calls motor_cb.
motor_timer_cb(s) ==
    LET tick == s.motor.current_tick + 1
        complete == tick >= s.motor.total_ticks
        m == IF complete
             THEN [s.motor EXCEPT !.current_tick = tick, !.total_ticks = 0,
                                  !.total_steps = 0]
             ELSE [s.motor EXCEPT !.current_tick = tick]
        s1 == [s EXCEPT !.motor = m, !.ev = Ev("motor_tick")]
    IN IF complete /\ s.motor.motor_cb = "end_move_pause"
       THEN end_move_pause(Log(s1, "motor_cb"))
       ELSE s1

\* move_pause_timer_cb
move_pause_timer_cb(s) ==
    execute_instruction([s EXCEPT !.pause_armed = FALSE, !.ev = Ev("pause")])

\* servo_timer_cb on the tick that ends the pen movement.
servo_timer_cb(s) ==
    [s EXCEPT !.servo.timer_armed = FALSE, !.ev = Ev("servo_tick")]

\* The timer ticks of a movement up to the one that completes it.
RECURSIVE RunMotor(_)
RunMotor(s) == IF s.motor.total_ticks > 0 THEN RunMotor(motor_timer_cb(s)) ELSE s

(***************************************************************************)
(* Part 2: the motion engine of src/src/motors.c in full: drive_motors     *)
(* with its acceleration profile, the tick handler motor_timer_cb, the     *)
(* stepper sequencer, step_motors and stop_motors, and the servo driver    *)
(* set_servo, servo_up, servo_down and servo_timer_cb.  The configured     *)
(* acceleration duration, whose getter is declared in include/config.h,    *)
(* is an input of every request.                                           *)
(*                                                                         *)
(* The engine computes positions in single-precision floating point.  A    *)
(* float is kept exactly, as <<i, f>> for the value i + f / 2^30 with      *)
(* 0 <= f < 2^30, and every operation rounds its exact result to 24        *)
(* significant bits, to nearest and to even on a tie, as the C operation   *)
(* does.  The grid of 2^-30 holds every value the engine computes with an  *)
(* accel_duration of 4 or less (the smallest, 1/96, has its last bit at    *)
(* 2^-30).  A magnitude of 2^29 or more is kept as 2^29: the engine only   *)
(* adds to it values below 16, which single precision absorbs at either    *)
(* magnitude.                                                              *)
(***************************************************************************)
\* -a, which is exact.
FNeg(a) == IF a[2] = 0 THEN << -a[1], 0 >> ELSE << -a[1] - 1, 2^30 - a[2] >>

\* The rounding of the magnitude i + f / 2^30 + tail, where tail tells how
\* the rest below 2^-30 compares with half of 2^-30 (0: none, 1: less,
\* 2: equal, 3: more), with the sign put back: q is the number of bits
\* dropped, u the unit they make and r the part dropped.
FRound(neg, i, f, tail) ==
    LET bits(n) == CHOOSE k \in 0..30 : n < 2^k /\ (k = 0 \/ n >= 2^(k - 1))
        Up(q, u, r, odd, rest) ==
            IF q < 1 THEN tail = 3 \/ (tail = 2 /\ odd)
            ELSE \/ 2 * r > u
                 \/ 2 * r = u /\ (rest > 0 \/ odd)
        Carry(g) == IF g >= 2^30 THEN << i + 1, g - 2^30 >> ELSE << i, g >>
        Kept(q, u, r, up) ==
            IF q > 30 THEN << i - r + (IF up THEN u ELSE 0), 0 >>
            ELSE Carry(f - r + (IF up THEN u ELSE 0))
        Dropped(q, u, r) ==
            Kept(q, u, r,
                 Up(q, u, r,
                    IF q >= 30 THEN (i \div (IF q > 30 THEN u ELSE 1)) % 2 = 1
                    ELSE (f \div u) % 2 = 1,
                    IF q > 30 THEN (IF f > 0 \/ tail > 0 THEN 1 ELSE 0) ELSE tail))
        Unit(q, u) == Dropped(q, u, IF q > 30 THEN i % u ELSE f % u)
        Cut(q) == Unit(q, 2^(IF q < 1 THEN 0 ELSE IF q > 30 THEN q - 30 ELSE q))
        Sat(m) == IF m[1] >= 2^29 THEN << 2^29, 0 >> ELSE m
        s == Sat(Cut((IF i > 0 THEN bits(i) + 30 ELSE bits(f)) - 24))
    IN IF i >= 2^29 THEN (IF neg THEN << -(2^29), 0 >> ELSE << 2^29, 0 >>)
       ELSE IF neg THEN FNeg(s) ELSE s

\* a + b; a - b is FAdd(a, FNeg(b)).
FAdd(a, b) ==
    LET f == a[2] + b[2]
        s == IF f >= 2^30 THEN << a[1] + b[1] + 1, f - 2^30 >>
             ELSE << a[1] + b[1], f >>
        m == IF s[1] < 0 THEN FNeg(s) ELSE s
    IN FRound(s[1] < 0, m[1], m[2], 0)

\* (float)n / d for integers 0 <= n < 2^24 and 0 < d < 2^16, which convert
\* to float exactly.
FDiv(n, d) ==
    LET r0 == n % d
        q1 == (r0 * 2^15) \div d
        r1 == (r0 * 2^15) % d
        q2 == (r1 * 2^15) \div d
        r2 == (r1 * 2^15) % d
        tail == IF r2 = 0 THEN 0
                ELSE IF 2 * r2 < d THEN 1 ELSE IF 2 * r2 = d THEN 2 ELSE 3
    IN FRound(FALSE, n \div d, q1 * 2^15 + q2, tail)

\* step_values[stepper][index]: the coil pattern of each of the
\* STEP_SEQUENCE_COUNT entries, as the set of GPIO lines it drives.
step_values(stepper, index) ==
    LET l == << <<2, 15, 12, 14>>, <<3, 5, 4, 0>> >>[stepper]
        k == index \div 2 + 1
    IN IF index % 2 = 0 THEN {l[k]} ELSE {l[k], l[(k % 4) + 1]}

\* int8_t conversion of an int.
ToI8(x) == LET u == x % W8 IN IF u >= W8 \div 2 THEN u - W8 ELSE u

\* The servo driver before init_motors commands the first pen lift: the
\* statics of motors.c as the C start-up zeroes them, the servo timer not
\* armed, and the configuration (up and down angle, move steps) as read by
\* the getters of config.c.  op, calls, ticks, cbs, done and published are
\* observations: the calls of servo_up or servo_down so far, and for the
\* latest one the timer ticks since it, the callbacks made, whether the
\* latest tick finished the movement, and the number of ticks after which
\* servo_pos was written and broadcast.
PenAtReset ==
    [servo_angle |-> 0, destination_angle |-> 0, servo_step |-> 0,
     servo_step_size |-> 0, servo_pos |-> "UP", servo_cb |-> "NULL",
     armed |-> FALSE, servo_up_angle |-> 90, servo_down_angle |-> -90,
     servo_move_steps |-> 1,
     op |-> "init", calls |-> 0, ticks |-> 0, cbs |-> 0, done |-> FALSE,
     published |-> 0]

\* set_servo(position, cb).
set_servo(p, position, cb) ==
    LET destination == IF position < -90 THEN -90
                       ELSE IF position > 90 THEN 90 ELSE position
        steps == IF p.servo_move_steps <= 0 THEN 1 ELSE p.servo_move_steps
    IN [p EXCEPT !.servo_cb = cb,
                 !.destination_angle = destination,
                 !.servo_step_size = ToI8(CDiv(destination - p.servo_angle, steps)),
                 !.servo_step = 0,
                 !.armed = TRUE,
                 !.op = "command", !.calls = @ + 1, !.ticks = 0, !.cbs = 0,
                 !.done = FALSE]

\* servo_up(cb) for pos = "UP" and servo_down(cb) for pos = "DOWN":
\* servo_pos is written, and notify_servo_position broadcasts it, as soon as
\* set_servo has returned.
ServoTo(p, pos, cb) ==
    LET q == set_servo(p, IF pos = "UP" THEN p.servo_up_angle
                          ELSE p.servo_down_angle, cb)
    IN [q EXCEPT !.servo_pos = pos, !.published = q.ticks]

\* A servo_timer_cb whose final step adds the step size like the others
\* instead of taking the destination angle.
ServoTimerCbWithoutSnap(p) ==
    LET servo_step == (p.servo_step + 1) % W8
        finished == servo_step >= p.servo_move_steps
    IN [p EXCEPT !.servo_angle = ToI8(@ + p.servo_step_size),
                 !.servo_step = servo_step,
                 !.armed = ~finished,
                 !.cbs = IF finished /\ p.servo_cb # "NULL" THEN @ + 1 ELSE @,
                 !.op = "tick", !.ticks = @ + 1, !.done = finished]

\* servo_timer_cb.
ServoTimerCb(p) ==
    LET servo_step == (p.servo_step + 1) % W8
        finished == servo_step >= p.servo_move_steps
    IN [p EXCEPT !.servo_angle = IF finished THEN p.destination_angle
                                 ELSE ToI8(@ + p.servo_step_size),
                 !.servo_step = servo_step,
                 !.armed = ~finished,
                 !.cbs = IF finished /\ p.servo_cb # "NULL" THEN @ + 1 ELSE @,
                 !.op = "tick", !.ticks = @ + 1, !.done = finished]

\* The engine when init_motors has run and its start-up movement
\* drive_motors(8, 8, 8, false, NULL) has ended.  The fields from op on are
\* observations: the request being served and what the ticks since it, and
\* the last tick, have done.
EngineIdle ==
    [total_ticks |-> 0, total_steps |-> 0, current_tick |-> 8,
     current_phase |-> "STATIONARY", acceleration_active |-> FALSE,
     motor_cb |-> "NULL", accel_limit |-> 0, accel_duration |-> 0,
     cruise_duration |-> 8, phase_tick |-> 0, last_position |-> <<0, 0>>,
     stepper |-> [ii \in 1..2 |->
                    [steps |-> 8, d |-> 8, step |-> 8, last_step |-> 7,
                     direction |-> 1]],
     current_step |-> <<0, 0>>, idle_count |-> 0, energized |-> <<TRUE, TRUE>>,
     acceleration_duration |-> 0, pen |-> PenAtReset,
     op |-> "init", calls |-> 0, request |-> <<8, 8, 8, FALSE>>, advances |-> 0,
     made |-> <<0, 0>>, ramp_up |-> 0, ramp_down |-> 0, cbs |-> 0,
     advance |-> FALSE, stepped |-> <<FALSE, FALSE>>, gpio |-> <<>>,
     phase |-> "STATIONARY"]

\* A search that returns the largest tick count of left..right whose
\* half-profile displacement does not exceed target.
RECURSIVE BisectLargestNotAbove(_, _, _, _)
BisectLargestNotAbove(left, right, a_d, target) ==
    LET m == right - a_d
        m_value ==
            IF right <= a_d
            THEN FDiv(right * right * right, 6 * a_d * a_d)
            ELSE FAdd(FAdd(FAdd(FNeg(FDiv(m * m * m, 6 * a_d * a_d)),
                                FDiv(m * m, 2 * a_d)),
                           FDiv(m, 2)),
                      FDiv(a_d * a_d * a_d, 6 * a_d * a_d))
    IN IF left < right /\ (m_value[1] > target \/ (m_value[1] = target /\ m_value[2] > 0))
       THEN BisectLargestNotAbove(left, right - 1, a_d, target)
       ELSE right

\* The bisection loop of drive_motors for a short movement: the value of
\* left when it ends.  a_d is phase_data.accel_duration.
RECURSIVE Bisect(_, _, _, _)
Bisect(left, right, a_d, target) ==
    IF left < right
    THEN LET mid == (left + right) \div 2
             m == mid - a_d
             crossover == FDiv(a_d * a_d * a_d, 6 * a_d * a_d)
             m_value ==
                 IF mid <= a_d
                 THEN FDiv(mid * mid * mid, 6 * a_d * a_d)
                 ELSE FAdd(FAdd(FAdd(FNeg(FDiv(m * m * m, 6 * a_d * a_d)),
                                     FDiv(m * m, 2 * a_d)),
                                FDiv(m, 2)),
                           crossover)
         IN IF m_value[1] < target
            THEN Bisect(mid + 1, right, a_d, target)
            ELSE Bisect(left, mid, a_d, target)
    ELSE left

\* drive_motors(left_steps, right_steps, tick_count, accelerate, cb) as
\* motors.c defines it.  get_acceleration_duration() reads the configuration,
\* e.acceleration_duration.
DriveMotors(e, left32, right32, ticks32, accelerate, cb) ==
    LET left_steps == ToI16(left32)
        right_steps == ToI16(right32)
        tick_count == ToU16(ticks32)
        steps == Max2(Abs(left_steps), Abs(right_steps))
        a_d == e.acceleration_duration \div 2
        short == a_d > steps \div 2
        target == steps \div 2
        e0 == [e EXCEPT !.total_ticks = 0, !.total_steps = 0, !.current_tick = 0,
                        !.current_phase = IF accelerate THEN "ACCEL_1" ELSE "CRUISING",
                        !.acceleration_active = accelerate,
                        !.motor_cb = cb,
                        !.op = "drive", !.calls = @ + 1,
                        !.request = <<left_steps, right_steps, tick_count, accelerate>>,
                        !.advances = 0, !.made = <<0, 0>>, !.ramp_up = 0,
                        !.ramp_down = 0, !.cbs = 0, !.advance = FALSE,
                        !.stepped = <<FALSE, FALSE>>, !.gpio = <<>>,
                        !.phase = "STATIONARY"]
        accel_limit == IF ~accelerate THEN 0
                       ELSE IF short
                       THEN Bisect(0, e.acceleration_duration, a_d, target)
                       ELSE e.acceleration_duration
        cruise_duration == IF ~accelerate THEN tick_count
                           ELSE IF short THEN steps - 2 * target
                           ELSE steps - 2 * a_d
        units == IF accelerate THEN steps ELSE tick_count
        data(n) == [steps |-> Abs(n), d |-> 2 * Abs(n) - units, step |-> 0,
                    last_step |-> -1, direction |-> IF n > 0 THEN 1 ELSE W8 - 1]
    IN IF left_steps = 0 /\ right_steps = 0
       THEN e0
       ELSE [e0 EXCEPT !.accel_limit = accel_limit,
                       !.accel_duration = IF accelerate THEN a_d ELSE 0,
                       !.cruise_duration = cruise_duration,
                       !.phase_tick = 0,
                       !.stepper = << data(left_steps), data(right_steps) >>,
                       !.total_steps = steps,
                       !.total_ticks = IF accelerate
                                       THEN 2 * accel_limit + cruise_duration
                                       ELSE tick_count]

\* A step_motors that turns every stepping motor the same way, whatever the
\* sign of the number it is given.
step_motors_one_way(e, steppers) ==
    LET index(ii) == IF steppers[ii] = 0 THEN e.current_step[ii]
                     ELSE (e.current_step[ii] - 1 + STEP_SEQUENCE_COUNT)
                              % STEP_SEQUENCE_COUNT
        moving == {ii \in 1..2 : steppers[ii] # 0}
        mask(ii) == UNION {step_values(ii, k) : k \in 0..STEP_SEQUENCE_COUNT - 1}
        set_mask == UNION {step_values(ii, index(ii)) : ii \in moving}
        enable_mask == UNION {mask(ii) : ii \in moving}
    IN IF moving = {} THEN e
       ELSE [e EXCEPT !.current_step = << index(1), index(2) >>,
                      !.energized = [ii \in 1..2 |-> @[ii] \/ ii \in moving],
                      !.gpio = Append(@, [set_mask |-> set_mask,
                                          clear_mask |-> enable_mask \ set_mask,
                                          enable_mask |-> enable_mask])]

\* A step_motors that writes the lines of both motors on every call, a motor
\* that does not step being written with the pattern of its present index.
step_motors_writing_both(e, steppers) ==
    LET step(ii) == IF steppers[ii] < 0 THEN 1 ELSE -1
        index(ii) == IF steppers[ii] = 0 THEN e.current_step[ii]
                     ELSE (e.current_step[ii] + step(ii) + STEP_SEQUENCE_COUNT)
                              % STEP_SEQUENCE_COUNT
        moving == {ii \in 1..2 : steppers[ii] # 0}
        mask(ii) == UNION {step_values(ii, k) : k \in 0..STEP_SEQUENCE_COUNT - 1}
        set_mask == UNION {step_values(ii, index(ii)) : ii \in 1..2}
        enable_mask == UNION {mask(ii) : ii \in 1..2}
    IN IF moving = {} THEN e
       ELSE [e EXCEPT !.current_step = << index(1), index(2) >>,
                      !.energized = [ii \in 1..2 |-> @[ii] \/ ii \in moving],
                      !.gpio = Append(@, [set_mask |-> set_mask,
                                          clear_mask |-> enable_mask \ set_mask,
                                          enable_mask |-> enable_mask])]

\* step_motors(stepper1, stepper2), called with the two elements of
\* steppers: the new phase indexes and the one gpio_output_set it makes.
step_motors(e, steppers) ==
    LET step(ii) == IF steppers[ii] < 0 THEN 1 ELSE -1
        index(ii) == IF steppers[ii] = 0 THEN e.current_step[ii]
                     ELSE (e.current_step[ii] + step(ii) + STEP_SEQUENCE_COUNT)
                              % STEP_SEQUENCE_COUNT
        moving == {ii \in 1..2 : steppers[ii] # 0}
        mask(ii) == UNION {step_values(ii, k) : k \in 0..STEP_SEQUENCE_COUNT - 1}
        set_mask == UNION {step_values(ii, index(ii)) : ii \in moving}
        enable_mask == UNION {mask(ii) : ii \in moving}
    IN IF moving = {} THEN e
       ELSE [e EXCEPT !.current_step = << index(1), index(2) >>,
                      !.energized = [ii \in 1..2 |-> @[ii] \/ ii \in moving],
                      !.gpio = Append(@, [set_mask |-> set_mask,
                                          clear_mask |-> enable_mask \ set_mask,
                                          enable_mask |-> enable_mask])]

\* stop_motors: the gpio_output_set that turns every coil off.
stop_motors ==
    LET all == UNION {step_values(ii, k) : ii \in 1..2, k \in 0..STEP_SEQUENCE_COUNT - 1}
    IN [set_mask |-> {}, clear_mask |-> all, enable_mask |-> all]

\* motor_timer_cb.  phase_tick is a uint32_t that the code can set to
\* 2 * accel_duration - accel_limit = -1, which is 2^32 - 1: it is kept as
\* -1, the next ++phase_tick makes it 0, and as a float it is 2^32, whose
\* cube over 6 * accel_duration^2 the correction subtracts.
MotorTimerCb(e) ==
    LET e0 == [e EXCEPT !.op = "tick", !.advance = FALSE,
                        !.stepped = <<FALSE, FALSE>>, !.gpio = <<>>,
                        !.phase = e.current_phase]
        tick == e.phase_tick + 1
        a_d == e.accel_duration
        a_l == e.accel_limit
        phase == e.current_phase
        Position(cube, square, half) ==
            CASE phase = "ACCEL_1" -> cube
              [] phase = "ACCEL_2" -> FAdd(FAdd(FNeg(cube), square), half)
              [] phase = "CRUISING" -> FAdd(e.last_position, <<1, 0>>)
              [] phase = "DECEL_1" -> FAdd(FNeg(cube), <<tick, 0>>)
              [] phase = "DECEL_2" -> FAdd(FAdd(cube, FNeg(square)), half)
        after_ramp == IF e.cruise_duration > 0 THEN "CRUISING" ELSE "DECEL_1"
        next ==
            CASE phase = "ACCEL_1" ->
                     IF tick >= a_l THEN after_ramp
                     ELSE IF tick >= a_d THEN "ACCEL_2" ELSE phase
              [] phase = "ACCEL_2" ->
                     IF tick + a_d >= a_l THEN after_ramp
                     ELSE IF tick >= a_l THEN "CRUISING" ELSE phase
              [] phase = "CRUISING" ->
                     IF tick >= e.cruise_duration
                     THEN (IF ~e.acceleration_active THEN "STATIONARY" ELSE "DECEL_1")
                     ELSE phase
              [] phase = "DECEL_1" -> IF tick >= a_d THEN "DECEL_2" ELSE phase
              [] phase = "DECEL_2" -> IF tick >= a_d THEN "STATIONARY" ELSE phase
        reset == next # phase
        complete == next = "STATIONARY"
        signed(ii) == IF e.stepper[ii].direction >= W8 \div 2
                      THEN e.stepper[ii].direction - W8
                      ELSE e.stepper[ii].direction
        data(ii, active, steps) ==
            LET t == e.stepper[ii]
            IN IF ~active THEN t
               ELSE [t EXCEPT !.last_step = IF steps THEN t.step ELSE @,
                              !.step = IF t.d > 0 THEN @ + 1 ELSE @,
                              !.d = (IF t.d > 0 THEN @ - 2 * e.total_steps ELSE @)
                                    + 2 * t.steps]
        Stepped(advance, active, steps) ==
            step_motors(
                [e0 EXCEPT !.phase_tick = tick, !.current_tick = @ + 1,
                           !.idle_count = 0,
                           !.advance = advance, !.stepped = steps,
                           !.stepper = << data(1, active[1], steps[1]),
                                          data(2, active[2], steps[2]) >>,
                           !.advances = IF advance THEN @ + 1 ELSE @,
                           !.ramp_up = IF advance /\ phase \in {"ACCEL_1", "ACCEL_2"}
                                       THEN @ + 1 ELSE @,
                           !.ramp_down = IF advance /\ phase \in {"DECEL_1", "DECEL_2"}
                                         THEN @ + 1 ELSE @,
                           !.made = [ii \in 1..2 |->
                                       IF steps[ii] THEN @[ii] + 1 ELSE @[ii]]],
                [ii \in 1..2 |-> IF steps[ii] THEN signed(ii) ELSE 0])
        Active(advance, active) ==
            Stepped(advance, active,
                    [ii \in 1..2 |->
                       active[ii] /\ e.stepper[ii].step # e.stepper[ii].last_step])
        shortened == reset /\ a_l # 2 * a_d
        skip == shortened /\ next = "DECEL_1" /\ a_l <= a_d
        resumed == IF skip \/ (shortened /\ next = "DECEL_2" /\ a_l < a_d)
                   THEN a_d - a_l
                   ELSE IF shortened /\ next = "DECEL_1" THEN 2 * a_d - a_l
                   ELSE 0
        Correction(c) ==
            IF skip
            THEN FAdd(FAdd(FDiv(c * c * c, 6 * a_d * a_d), FNeg(FDiv(c * c, 2 * a_d))),
                      FDiv(c, 2))
            ELSE IF c < 0 THEN << -(2^29), 0 >>
            ELSE FAdd(FNeg(FDiv(c * c * c, 6 * a_d * a_d)), <<c, 0>>)
        Reset(e1, position, last_position) ==
            IF reset
            THEN [e1 EXCEPT !.phase_tick = resumed,
                            !.current_phase = IF skip THEN "DECEL_2" ELSE next,
                            !.last_position =
                                FAdd(IF shortened /\ next = "DECEL_1"
                                     THEN FAdd(last_position, Correction(resumed))
                                     ELSE last_position,
                                     FNeg(position))]
            ELSE [e1 EXCEPT !.last_position = last_position]
        Complete(e2) ==
            IF complete
            THEN [e2 EXCEPT !.total_ticks = 0, !.total_steps = 0,
                            !.cbs = IF e.motor_cb # "NULL" THEN @ + 1 ELSE @]
            ELSE e2
        Advance(position, advance) ==
            Complete(Reset(Active(advance,
                                  [ii \in 1..2 |-> advance /\ e.stepper[ii].steps > 0]),
                           position,
                           IF advance THEN FAdd(e.last_position, <<1, 0>>)
                           ELSE e.last_position))
        Tick(position) ==
            Advance(position, FAdd(position, FNeg(e.last_position))[1] >= 1)
    IN IF e.total_ticks <= 0
       THEN IF e.idle_count + 1 > MAX_IDLE_COUNT
            THEN [e0 EXCEPT !.idle_count = 0, !.energized = <<FALSE, FALSE>>,
                            !.gpio = << stop_motors >>]
            ELSE [e0 EXCEPT !.idle_count = @ + 1]
       ELSE Tick(Position(FDiv(tick * tick * tick, 6 * a_d * a_d),
                          FDiv(tick * tick, 2 * a_d), FDiv(tick, 2)))

\* The state in which the firmware accepts its first program: init_vm has
\* run, and the start-up movement of init_motors (one step sequence of both
\* steppers, without callback) and its pen lift have ended.
InitState ==
    LET s == [program_status |-> "IDLE", program |-> NULL,
              heap |-> [a \in Addr |-> FreeFrame], stack |-> NULL, sp |-> NULL,
              globals |-> NoGlobals, queue |-> 0, pause_armed |-> FALSE,
              motor |-> MotorIdle,
              servo |-> [servo_pos |-> "UP", timer_armed |-> FALSE],
              ev |-> Ev("init")]
        s1 == servo_timer_cb(servo_move(s, "UP"))
        s2 == RunMotor(drive_motors(s1, 8, 8, 8, "NULL"))
    IN [s2 EXCEPT !.ev = Ev("init")]

(***************************************************************************)
(* vm_execute_task                                                         *)
(***************************************************************************)
\* The switch of vm_execute_task.
Execute(s, opcode, g, fail) ==
    CASE opcode = INSTR_FD -> ScaledMove(s, straight_steps, 100, 1, 1)
      [] opcode = INSTR_BK -> ScaledMove(s, straight_steps, 100, -1, -1)
      [] opcode = INSTR_LT -> ScaledMove(s, turn_steps, 180, -1, 1)
      [] opcode = INSTR_RT -> ScaledMove(s, turn_steps, 180, 1, -1)
      [] opcode = INSTR_FDRAW -> RawMove(s, 1, 1)
      [] opcode = INSTR_BKRAW -> RawMove(s, -1, -1)
      [] opcode = INSTR_LTRAW -> RawMove(s, -1, 1)
      [] opcode = INSTR_RTRAW -> RawMove(s, 1, -1)
      [] opcode = INSTR_PU -> PenMove(s, "UP")
      [] opcode = INSTR_PD -> PenMove(s, "DOWN")
      [] opcode = INSTR_IADD -> Binary(s, opcode)
      [] opcode = INSTR_ISUB -> Binary(s, opcode)
      [] opcode = INSTR_IMUL -> Binary(s, opcode)
      [] opcode = INSTR_IDIV -> Divide(s, g)
      [] opcode = INSTR_ICONST_0 -> Step(stack_push(s, 0), TRUE, FALSE)
      [] opcode = INSTR_ICONST_1 -> Step(stack_push(s, 1), TRUE, FALSE)
      [] opcode = INSTR_ICONST_45 -> Step(stack_push(s, 45), TRUE, FALSE)
      [] opcode = INSTR_ICONST_90 -> Step(stack_push(s, 90), TRUE, FALSE)
      [] opcode = INSTR_ICONST -> Step(stack_push(s, Immediate(s, g)), TRUE, FALSE)
      [] opcode = INSTR_ILOAD_0 -> LoadLocal(s, 0, g)
      [] opcode = INSTR_ILOAD_1 -> LoadLocal(s, 1, g)
      [] opcode = INSTR_ILOAD_2 -> LoadLocal(s, 2, g)
      [] opcode = INSTR_ILOAD -> LoadLocal(s, Immediate(s, g), g)
      [] opcode = INSTR_ISTORE_0 -> StoreLocal(s, 0)
      [] opcode = INSTR_ISTORE_1 -> StoreLocal(s, 1)
      [] opcode = INSTR_ISTORE_2 -> StoreLocal(s, 2)
      [] opcode = INSTR_ISTORE -> StoreLocal(s, Immediate(s, g))
      [] opcode = INSTR_GLOAD_0 -> LoadGlobal(s, 0, g)
      [] opcode = INSTR_GLOAD_1 -> LoadGlobal(s, 1, g)
      [] opcode = INSTR_GLOAD_2 -> LoadGlobal(s, 2, g)
      [] opcode = INSTR_GLOAD -> LoadGlobal(s, Immediate(s, g), g)
      [] opcode = INSTR_GSTORE_0 -> StoreGlobal(s, 0)
      [] opcode = INSTR_GSTORE_1 -> StoreGlobal(s, 1)
      [] opcode = INSTR_GSTORE_2 -> StoreGlobal(s, 2)
      [] opcode = INSTR_GSTORE -> StoreGlobal(s, Immediate(s, g))
      [] opcode = INSTR_ILT -> Binary(s, opcode)
      [] opcode = INSTR_ILE -> Binary(s, opcode)
      [] opcode = INSTR_IGT -> Binary(s, opcode)
      [] opcode = INSTR_IGE -> Binary(s, opcode)
      [] opcode = INSTR_IEQ -> Binary(s, opcode)
      [] opcode = INSTR_INE -> Binary(s, opcode)
      [] opcode = INSTR_CALL -> Call(s, Immediate(s, g), fail)
      [] opcode = INSTR_RET -> Ret(s)
      [] opcode = INSTR_STOP -> Step(stop_program(s), FALSE, TRUE)
      [] opcode = INSTR_BR -> Branch(s, Immediate(s, g))
      [] opcode = INSTR_BRT -> BranchIf(s, Immediate(s, g), TRUE)
      [] opcode = INSTR_BRF -> BranchIf(s, Immediate(s, g), FALSE)
      [] OTHER -> Return(program_error(s, "unknown"))

\* The end of vm_execute_task, lines 771-778.  The program counter is
\* updated through sp, which is NULL after a program_error: the store either
\* raises a CPU exception, which restarts the firmware, or goes unnoticed.
Finish(r, opcode, g, crash) ==
    LET s1 == IF ~r.auto_update_pc THEN r.s
              ELSE IF r.s.sp = NULL THEN Undefined(r.s, "null_dereference")
              ELSE [r.s EXCEPT !.heap[r.s.sp].pc.idx = @ + INSTR_LEN(opcode, g)]
        s2 == IF r.defer_next_instr THEN s1 ELSE execute_instruction(s1)
    IN IF r.returned THEN r.s
       ELSE IF "null_dereference" \in s1.ev.ub /\ crash
       THEN [InitState EXCEPT !.ev = Ev("reset")]
       ELSE s2

\* code[0] of vm_execute_task: the byte at the program counter, b when the
\* counter is past the code; -1 when the task executes no instruction.
Fetch(s, b) ==
    IF s.program_status # "RUNNING" \/ s.program = NULL THEN -1
    ELSE IF Cur(s).pc.idx < CurFunction(s).length
    THEN CurFunction(s).code[Cur(s).pc.idx + 1]
    ELSE b

\* vm_execute_task.  g is the value of a word the task reads without its
\* having been written, b that of a code byte read past the code, fail the
\* os_malloc that fails, crash whether a store through NULL is trapped.
vm_execute_task(s, g, b, fail, crash) ==
    LET s0 == [s EXCEPT !.queue = @ - 1, !.ev = Ev("task")]
        f == Cur(s0)
        fn == CurFunction(s0)
        s1 == IF f.pc.idx + INSTR_LEN(f.pc.func, g) > fn.length
              THEN Log(stop_program(s0), "end_of_function")
              ELSE s0
        opcode == Fetch(s, b)
        s2 == [(IF f.pc.idx < fn.length THEN s1
                ELSE Undefined(s1, "code_read_out_of_bounds"))
               EXCEPT !.ev.opcode = opcode, !.ev.pre_sp = s.sp,
                      !.ev.imm = IF opcode \in Immediates
                                 THEN Immediate(s0, g) ELSE 0]
    IN IF s0.program_status # "RUNNING" \/ s0.program = NULL
       THEN [(IF s0.program # NULL THEN free_program(s0) ELSE s0)
             EXCEPT !.program_status = "IDLE"]
       ELSE Finish(Execute(s2, opcode, g, fail), opcode, g, crash)

(***************************************************************************)
(* Specification.                                                          *)
(***************************************************************************)
Init ==
    /\ program_status = InitState.program_status
    /\ program = InitState.program
    /\ heap = InitState.heap
    /\ stack = InitState.stack
    /\ sp = InitState.sp
    /\ globals = InitState.globals
    /\ queue = InitState.queue
    /\ pause_armed = InitState.pause_armed
    /\ motor = InitState.motor
    /\ servo = InitState.servo
    /\ ev = InitState.ev
    /\ engine = EngineIdle

\* The values the end of run_program's body can return: it is reached only
\* when no os_malloc has failed.
ReturnValues(fail) == IF fail = "none" THEN NoReturnValue ELSE {"false"}

\* run_program(prog), called from the HTTP layer with a program of ptrs.
RunFrom(ptrs) ==
    \E prog \in ptrs, fail \in AllocFail :
        \E ret \in ReturnValues(fail) :
            Becomes(run_program([State EXCEPT !.ev = Ev("run")], prog, fail, ret))

RunProgram == RunFrom(ValidPtr)
LoadProgram == RunFrom(LoadPtr)

\* stop_program()
StopProgram ==
    Becomes(stop_program([State EXCEPT !.ev = Ev("stop")]))

\* The os_malloc that can fail in the task: one of create_stack_frame, which
\* only INSTR_CALL calls.
AllocFailAt(opcode) == IF opcode = INSTR_CALL THEN {"none", "frame"} ELSE {"none"}

\* Whether the store through a NULL sp is trapped: only the instructions that
\* call program_error and then break reach that store.
TrapAt(opcode) ==
    IF opcode \in INSTR_ILOAD_0..INSTR_GSTORE THEN BOOLEAN ELSE {FALSE}

\* The SDK runs the task vm_execute_task for one posted event.
VmTask ==
    /\ queue > 0
    /\ \E g \in Garbage, b \in GarbageBytes :
          \E fail \in AllocFailAt(Fetch(State, b)),
             crash \in TrapAt(Fetch(State, b)) :
              Becomes(vm_execute_task(State, g, b, fail, crash))

\* The motor timer fires while a movement is in flight.
MotorTick ==
    /\ motor.total_ticks > 0
    /\ Becomes(motor_timer_cb(State))

\* The settling-pause timer expires.
PauseTimer ==
    /\ pause_armed
    /\ Becomes(move_pause_timer_cb(State))

\* The servo timer fires.
ServoTick ==
    /\ servo.timer_armed
    /\ Becomes(servo_timer_cb(State))

\* A caller of drive_motors makes one of requests, each
\* <<left_steps, right_steps, tick_count, accelerate, cb>> with the
\* acceleration duration configured at that time.
RequestFrom(requests) ==
    /\ \E q \in requests :
          engine' = DriveMotors([engine EXCEPT !.acceleration_duration = q[6]],
                                q[1], q[2], q[3], q[4], q[5])
    /\ UNCHANGED << program_status, program, heap, stack, sp, globals, queue,
                    pause_armed, motor, servo, ev >>

\* A motor_timer_cb that turns the coils off one idle tick early.
TickTurningOffEarly(limit) ==
    /\ engine.total_ticks > 0 \/ engine.idle_count < limit
    /\ engine' = IF engine.total_ticks <= 0 /\ engine.idle_count + 1 = MAX_IDLE_COUNT
                 THEN MotorTimerCb([engine EXCEPT !.idle_count = MAX_IDLE_COUNT])
                 ELSE MotorTimerCb(engine)
    /\ UNCHANGED << program_status, program, heap, stack, sp, globals, queue,
                    pause_armed, motor, servo, ev >>

\* The motor timer fires: always during a movement, and for limit ticks
\* after it.
TickWithin(limit) ==
    /\ engine.total_ticks > 0 \/ engine.idle_count < limit
    /\ engine' = MotorTimerCb(engine)
    /\ UNCHANGED << program_status, program, heap, stack, sp, globals, queue,
                    pause_armed, motor, servo, ev >>

Next ==
    \/ RunProgram
    \/ StopProgram
    \/ VmTask
    \/ MotorTick
    \/ PauseTimer
    \/ ServoTick

Spec == Init /\ [][Next]_vars

\* The same firmware, handed valid and invalid programs alike.
NextLoad ==
    \/ LoadProgram
    \/ StopProgram
    \/ VmTask
    \/ MotorTick
    \/ PauseTimer
    \/ ServoTick

SpecLoad == Init /\ [][NextLoad]_vars

\* run_program(prog) followed at once by stop_program().
RunStopCycle ==
    \E prog \in ValidPtr, fail \in AllocFail :
        \E ret \in ReturnValues(fail) :
            Becomes(stop_program(
                run_program([State EXCEPT !.ev = Ev("cycle")], prog, fail, ret)))

\* The firmware when every program handed to it is stopped at once.
NextCycle ==
    \/ RunStopCycle
    \/ VmTask

SpecCycle == Init /\ [][NextCycle]_vars

\* The firmware running programs that end in a fault.  None of them moves a
\* motor or the pen, so no timer is ever armed.
RunFaulty == RunFrom(FaultPtr)

NextFault ==
    \/ RunFaulty
    \/ StopProgram
    \/ VmTask

SpecFault == Init /\ [][NextFault]_vars

\* What run_program is handed where branches and motor instructions are
\* examined: programs that branch, and programs that move.
FlowPtr ==
    { Ptr(n) : n \in {"PBranch", "PBranchEnd", "PTurns", "PRaw", "PLeftRaw",
                      "PNarrow", "PNegative", "PZeroMove"} }

\* The firmware running one such program at a time: run_program is called
\* when no program is loaded and no task is pending.
SpecFlow ==
    /\ Init
    /\ [][\/ /\ program = NULL
             /\ queue = 0
             /\ RunFrom(FlowPtr)
          \/ VmTask
          \/ MotorTick
          \/ PauseTimer
          \/ ServoTick]_vars

\* run_program called while no program is loaded and no task is pending,
\* with a program that draws: PZeroMove moves forward by 1, lowers the pen
\* and turns left by 0 degrees.
RunIdle ==
    /\ program = NULL
    /\ queue = 0
    /\ RunFrom({Ptr("PZeroMove"), Ptr("PArgs")})

\* The firmware running one program at a time to its end, never stopped from
\* outside; posted tasks are run and armed timers fire.
NextLive ==
    \/ RunIdle
    \/ VmTask
    \/ MotorTick
    \/ PauseTimer
    \/ ServoTick

\* Weak fairness of the task is written out: VmTask is enabled exactly when
\* queue > 0, and every task changes the state of these programs.
SpecLive ==
    /\ Init
    /\ [][NextLive]_vars
    /\ ([]<>(queue = 0) \/ []<><<VmTask>>_vars)
    /\ WF_vars(MotorTick)
    /\ WF_vars(PauseTimer)
    /\ WF_vars(ServoTick)

\* The motion engine alone.  The first movement after start-up is any
\* movement of up to MaxSteps steps, with or without acceleration, requested
\* the way the VM requests it (tick_count is the larger of its two operands,
\* which is 0 for the operands -1 and 0).  Later
\* calls, which may interrupt a movement, are the drive_motors(0, 0, 1, NULL)
\* of stop_program and one short movement; MaxCalls calls are followed.
SpecMotion ==
    /\ Init
    /\ [][\/ /\ engine.calls = 0
             /\ RequestFrom({ <<l, r, Max2(Abs(l), Abs(r)), a, "callback",
                                IF a THEN c ELSE 2>> :
                                  l \in -MaxSteps..MaxSteps, r \in -MaxSteps..MaxSteps,
                                  a \in BOOLEAN, c \in 2..MaxAccelerationDuration }
                             \cup { <<-1, 0, 0, FALSE, "callback", 2>> })
          \/ /\ engine.calls \in 1..MaxCalls - 1
             /\ RequestFrom({ <<0, 0, 1, FALSE, "NULL", engine.acceleration_duration>>,
                              <<2, -1, 2, FALSE, "callback", engine.acceleration_duration>> })
          \/ TickWithin(MaxIdleTicks)]_vars

\* The engine over its idle time: every tick is followed until the idle
\* count has run its course, and a request for a short movement without
\* acceleration comes when the count is at zero, which it is at start-up,
\* after a movement and after the coils were turned off.
SpecIdle ==
    /\ Init
    /\ [][\/ /\ engine.calls < MaxCalls /\ engine.idle_count = 0
             /\ RequestFrom({ <<1, -2, 2, FALSE, "callback", 2>>,
                              <<0, 3, 3, FALSE, "callback", 2>> })
          \/ TickWithin(MAX_IDLE_COUNT + 1)]_vars

\* The servo driver alone.  init_motors reads the configuration and lifts
\* the pen without callback; later calls of servo_up and servo_down, with a
\* callback, come while the servo rests or moves.
SpecServo ==
    /\ Init
    /\ [][\/ /\ engine.pen.calls = 0
             /\ \E up \in ServoAngles, down \in ServoAngles,
                    steps \in 0..MaxServoSteps :
                   engine' = [engine EXCEPT !.pen =
                       ServoTo([@ EXCEPT !.servo_up_angle = up,
                                         !.servo_down_angle = down,
                                         !.servo_move_steps = steps],
                               "UP", "NULL")]
             /\ UNCHANGED << program_status, program, heap, stack, sp, globals,
                             queue, pause_armed, motor, servo, ev >>
          \/ /\ engine.pen.calls \in 1..MaxServoCalls
             /\ \E pos \in {"UP", "DOWN"} :
                   engine' = [engine EXCEPT !.pen = ServoTo(@, pos, "callback")]
             /\ UNCHANGED << program_status, program, heap, stack, sp, globals,
                             queue, pause_armed, motor, servo, ev >>
          \/ /\ engine.pen.armed
             /\ engine' = [engine EXCEPT !.pen = ServoTimerCb(@)]
             /\ UNCHANGED << program_status, program, heap, stack, sp, globals,
                             queue, pause_armed, motor, servo, ev >>]_vars

(***************************************************************************)
(* Properties of run_program, stop_program and free_program.               *)
(***************************************************************************)
\* The frames of the chain that starts at frame a, following next.
RECURSIVE Chain(_, _)
Chain(h, a) == IF a = NULL THEN {} ELSE {a} \cup Chain(h, h[a].next)

\* The validity rules of a program as the specification words them.
Valid(p) ==
    /\ p # NULL
    /\ Programs(p).global_count <= 32
    /\ 1 <= Programs(p).function_count
    /\ Programs(p).function_count <= 64
    /\ \A i \in 1..Programs(p).function_count :
          /\ Programs(p).functions[i].argument_count <= 32
          /\ Programs(p).functions[i].local_count <= 32
          /\ Programs(p).functions[i].stack_size <= 32
          /\ 0 < Programs(p).functions[i].length
          /\ Programs(p).functions[i].length <= 2048

\* The state run_program is said to leave when it accepts a program: status
\* Running, exactly one frame, for function 0 at offset 0 with an empty
\* operand stack.
Started ==
    /\ program_status = "RUNNING"
    /\ stack # NULL
    /\ sp = stack
    /\ AllocatedFrames(heap) = {stack}
    /\ heap[stack].pc = [func |-> 0, idx |-> 0]
    /\ heap[stack].stack_size = 0

\* C1: run_program(prog) accepts prog (it returns true and leaves status
\* Running, exactly one frame for function 0 at offset 0 with an empty operand
\* stack, and one instruction task scheduled) exactly when prog is not NULL,
\* has at most 32 globals, between 1 and 64 functions, and every function has
\* at most 32 arguments, 32 locals, 32 stack entries and a length in 1..2048;
\* otherwise it returns false and the status is not Running.  (Stated for the
\* calls in which no os_malloc fails.)
C1_RunProgramAcceptsExactlyValidPrograms ==
    (ev.op = "run" /\ "alloc_failed" \notin ev.log) =>
        IF Valid(ev.prog)
        THEN ev.ret = "true" /\ Started /\ ev.posts = 1
        ELSE ev.ret = "false" /\ program_status # "RUNNING"

\* C2: a run_program call with an invalid program, made while another program
\* is Running, leaves the running program untouched: the status stays Running,
\* frames, globals and program counter are unchanged and the motion in flight
\* is not cancelled.
C2_RejectedProgramLeavesRunningProgram ==
    [][(program_status = "RUNNING" /\ ev'.op = "run" /\ ~Valid(ev'.prog)) =>
          /\ program_status' = "RUNNING"
          /\ program' = program
          /\ heap' = heap
          /\ stack' = stack
          /\ sp' = sp
          /\ globals' = globals
          /\ motor' = motor]_vars

\* Nothing of a program is left: status Idle, no frame allocated, no globals
\* array, no program data.
NothingLeft ==
    /\ program_status = "IDLE"
    /\ AllocatedFrames(heap) = {}
    /\ stack = NULL
    /\ sp = NULL
    /\ globals = NoGlobals
    /\ program = NULL

\* C3: for every valid program, run_program followed immediately by
\* stop_program ends, once the posted tasks have run, with status Idle, no
\* frame allocated, no globals array and no program data; and so again after
\* any number of such cycles.
C3_RunThenStopLeavesNothing ==
    (queue = 0) => NothingLeft

\* C3 witness: a cycle has been made and the tasks it posted have all run.
C3_Witness_CycleDrained ==
    /\ ev.op = "task"
    /\ queue = 0
    /\ NothingLeft

\* The function records carry their own index as id, as the HTTP layer
\* builds them.
NumberedInOrder(p) ==
    \A i \in 1..Programs(p).function_count : Programs(p).functions[i].id = i - 1

\* C4: when run_program accepts a valid program while another is Running, the
\* old program is stopped and its frames, globals and program data are all
\* freed before the new one is installed; afterwards the status is Running and
\* the new program starts at offset 0 of function 0, in its only frame.
C4_ReplacementFreesTheOldProgram ==
    [][(program_status = "RUNNING" /\ ev'.op = "run"
          /\ Valid(ev'.prog) /\ NumberedInOrder(ev'.prog)
          /\ "alloc_failed" \notin ev'.log) =>
          /\ program_status' = "RUNNING"
          /\ program' = ev'.prog
          /\ stack' # NULL
          /\ sp' = stack'
          /\ heap'[stack'].pc = [func |-> 0, idx |-> 0]
          /\ heap'[stack'].stack_size = 0
          /\ \A a \in Chain(heap, stack) : a = stack' \/ ~heap'[a].used]_vars

\* C5: whenever the program state is freed (by STOP, stop_program, a fault or
\* a replacement), every frame of the call chain is released, whatever its
\* depth.
C5_FreeReleasesEveryFrame ==
    [][("free_program" \in ev'.log) =>
          \A a \in Chain(heap, stack) :
              \/ ~heap'[a].used
              \/ ev'.op = "run" /\ a = stack']_vars

(***************************************************************************)
(* Properties of the instructions.                                         *)
(***************************************************************************)
\* C6: a CALL whose target n does not satisfy 0 < n < function_count sets the
\* status to Error, creates no frame, pops no operand and frees all frame
\* memory.
C6_BadCallTargetIsAFault ==
    [][(ev'.op = "task" /\ ev'.opcode = INSTR_CALL
          /\ ~(0 < ev'.imm /\ ev'.imm < Programs(program).function_count)) =>
          /\ program_status' = "ERROR"
          /\ stack' = NULL
          /\ sp' = NULL
          /\ "underflow" \notin ev'.log
          /\ \A a \in Addr : heap'[a].used => heap[a].used
          /\ \A a \in Chain(heap, stack) : ~heap'[a].used]_vars

\* C7: after a CALL made by function A at offset p to a function B of k
\* arguments, B's RET leaves A's frame current with program counter (A, p+5),
\* A's operand stack k entries shorter than before the CALL, its remaining
\* entries and A's locals unchanged, and B's frame freed.
C7_CallRetRoundTrip ==
    (ev.op = "task" /\ ev.opcode = INSTR_RET /\ ev.fault = "none") =>
        /\ sp = ev.snap.caller
        /\ heap[sp].pc = [func |-> ev.snap.func, idx |-> ev.snap.idx + 5]
        /\ heap[sp].stack_size = ev.snap.stack_size - ev.snap.k
        /\ \A i \in 1..heap[sp].stack_size :
              heap[sp].stack[i] = ev.snap.stack[i]
        /\ heap[sp].locals = ev.snap.locals
        /\ ~heap[ev.pre_sp].used

\* C8: when the caller has pushed v1, ..., vk and calls a function of k
\* arguments (k in 0..32), the callee's local slot i-1 holds vi for every i in
\* 1..k, and exactly k operands are gone from the caller's stack.
C8_ArgumentsReachTheCallee ==
    [][(ev'.op = "task" /\ ev'.opcode = INSTR_CALL /\ ev'.fault = "none"
          /\ heap[sp].stack_size
               >= Function(program, ev'.imm).argument_count) =>
          LET k == Function(program, ev'.imm).argument_count
              before == heap[sp]
          IN /\ k \in 0..32
             /\ sp' # sp
             /\ heap'[sp'].prev = sp
             /\ \A i \in 1..k :
                   heap'[sp'].locals[i] = before.stack[before.stack_size - k + i]
             /\ heap'[sp].stack_size = before.stack_size - k
             /\ \A i \in 1..(before.stack_size - k) :
                   heap'[sp].stack[i] = before.stack[i]]_vars

\* C8 witness: a CALL has handed 45 and 90, pushed in this order, to a
\* function of two arguments.
C8_Witness_TwoArguments ==
    /\ ev.op = "task"
    /\ ev.opcode = INSTR_CALL
    /\ ev.fault = "none"
    /\ sp # NULL
    /\ heap[sp].snap.k = 2
    /\ heap[sp].locals[1] = 45
    /\ heap[sp].locals[2] = 90
    /\ heap[heap[sp].prev].stack_size = 1

\* C9: a push on a full operand stack and a pop from an empty one are each
\* an immediate fault: the status becomes Error and the program state is
\* freed; the pop hands no 0 to the instruction and the push is not dropped.
C9_StackOverflowAndUnderflowAreFaults ==
    (ev.op = "task" /\ ev.log \cap {"overflow", "underflow"} # {}) =>
        /\ program_status = "ERROR"
        /\ program = NULL
        /\ stack = NULL
        /\ sp = NULL
        /\ globals = NoGlobals

\* The instructions that read or write a local, and a global, variable.
LocalOpcodes == INSTR_ILOAD_0..INSTR_ISTORE
GlobalOpcodes == INSTR_GLOAD_0..INSTR_GSTORE

\* The index of the variable an instruction names.
VariableIndex(opcode, imm) ==
    CASE opcode \in {INSTR_ILOAD_0, INSTR_ISTORE_0, INSTR_GLOAD_0, INSTR_GSTORE_0} -> 0
      [] opcode \in {INSTR_ILOAD_1, INSTR_ISTORE_1, INSTR_GLOAD_1, INSTR_GSTORE_1} -> 1
      [] opcode \in {INSTR_ILOAD_2, INSTR_ISTORE_2, INSTR_GLOAD_2, INSTR_GSTORE_2} -> 2
      [] OTHER -> imm

\* C10: ILOAD and ISTORE (and their _0, _1, _2 forms) with index n succeed
\* exactly when n < argument_count + local_count of the frame, GLOAD and
\* GSTORE exactly when n < global_count; with n >= the count the instruction
\* is a fault and no slot is read or written.
C10_VariableIndexIsChecked ==
    [][(ev'.op = "task" /\ ev'.opcode \in LocalOpcodes \cup GlobalOpcodes) =>
          LET n == VariableIndex(ev'.opcode, ev'.imm)
              count == IF ev'.opcode \in LocalOpcodes
                       THEN heap[sp].local_count
                       ELSE globals.global_count
          IN IF 0 <= n /\ n < count
             THEN ev'.fault = "none"
             ELSE /\ ev'.fault \in {"local", "global"}
                  /\ ev'.ub \cap {"local_read_out_of_bounds",
                                  "local_write_out_of_bounds",
                                  "global_read_out_of_bounds",
                                  "global_write_out_of_bounds"} = {}]_vars

(***************************************************************************)
(* Properties of vm_execute_task: code bounds and faults.                  *)
(***************************************************************************)
\* The encoded length of an opcode: 1 byte, or 5 with a 32-bit immediate.
EncodedLength(opcode) == IF opcode \in Immediates THEN 5 ELSE 1

\* The instruction at the program counter of the current frame lies within
\* the code of its function.
InstructionFits ==
    LET idx == heap[sp].pc.idx
        fn == Function(program, heap[sp].pc.func)
    IN /\ idx < fn.length
       /\ idx + EncodedLength(fn.code[idx + 1]) <= fn.length

\* C11: an instruction is decoded and executed only when pc.idx + L <= length
\* of the current function, L being the encoded length of the opcode at
\* pc.idx; otherwise the task stops the program as a fault and the bytes at
\* that offset have no effect: no frame, motor command or pen changes, and no
\* byte at or beyond the function's length is read as an opcode.
C11_InstructionWithinTheFunction ==
    [][(ev'.op = "task" /\ program_status = "RUNNING" /\ program # NULL
          /\ ~InstructionFits) =>
          /\ program_status' # "RUNNING"
          /\ "end_of_function" \in ev'.log
          /\ "code_read_out_of_bounds" \notin ev'.ub
          /\ ev'.drive = <<>>
          /\ servo' = servo
          /\ heap' = heap \/ AllocatedFrames(heap') = {}]_vars

\* C12: a runtime fault (invalid CALL target, variable index out of range,
\* branch target beyond the function, unknown opcode, code-bounds overrun, RET
\* from function 0) leaves status Error with all program state freed, schedules
\* no further instruction task and does not update the program counter of the
\* freed frame; and while the status is Error, until run_program is called,
\* the status stays Error and no task executes an instruction.  (A call of
\* stop_program in between is left out of the statement.)
C12_FaultIsFinal ==
    [][/\ (ev'.op = "task"
            /\ (ev'.fault # "none" \/ "end_of_function" \in ev'.log)) =>
              /\ program_status' = "ERROR"
              /\ program' = NULL
              /\ stack' = NULL
              /\ sp' = NULL
              /\ globals' = NoGlobals
              /\ \A a \in Chain(heap, stack) : ~heap'[a].used
              /\ ev'.posts = 0
              /\ "null_dereference" \notin ev'.ub
       /\ (program_status = "ERROR" /\ ev'.op \notin {"run", "stop"}) =>
              /\ program_status' = "ERROR"
              /\ ev'.opcode = -1]_vars

\* C13: RET executed in the frame of function 0, which has no caller, sets
\* status Error and frees all program state; RET in any other frame frees
\* exactly that frame, makes its caller the current frame and schedules the
\* caller's next instruction.
C13_RetFromMainIsAFaultElsewhereItResumesTheCaller ==
    [][(ev'.op = "task" /\ ev'.opcode = INSTR_RET) =>
          IF heap[sp].prev = NULL
          THEN /\ program_status' = "ERROR"
               /\ program' = NULL
               /\ stack' = NULL
               /\ sp' = NULL
               /\ globals' = NoGlobals
               /\ \A a \in Chain(heap, stack) : ~heap'[a].used
          ELSE /\ program_status' = program_status
               /\ AllocatedFrames(heap') = AllocatedFrames(heap) \ {sp}
               /\ sp' = heap[sp].prev
               /\ heap'[sp'].next = NULL
               /\ stack' = stack
               /\ queue' = queue]_vars

\* C13 witness: a RET has just returned from a called function to its caller.
C13_Witness_ReturnedToCaller ==
    /\ ev.op = "task"
    /\ ev.opcode = INSTR_RET
    /\ ev.fault = "none"
    /\ sp # NULL
    /\ ev.pre_sp # sp
    /\ ev.posts = 1

\* C14: the task that executes STOP leaves status Idle, commands the motors
\* to zero steps and notifies the listeners; the next task after a stop frees
\* all state of the stopped program (frames, globals, program data); and no
\* task executes an instruction while the status is Idle.
C14_StopEndsTheProgram ==
    [][/\ (ev'.op = "task" /\ ev'.opcode = INSTR_STOP) =>
              /\ program_status' = "IDLE"
              /\ {"motors_stopped", "notify_stopped"} \subseteq ev'.log
              /\ motor'.total_steps = 0
              /\ motor'.total_ticks = 0
       /\ (program_status = "IDLE" /\ ev'.op = "task") => ev'.opcode = -1
       /\ (ev.op = "task" /\ ev.opcode = INSTR_STOP /\ ev'.op = "task") =>
              /\ program' = NULL
              /\ globals' = NoGlobals
              /\ stack' = NULL
              /\ sp' = NULL
              /\ \A a \in Chain(heap, stack) : ~heap'[a].used]_vars

(***************************************************************************)
(* Properties of the continuation of a program: motions, pauses, tasks.    *)
(***************************************************************************)
\* A motion that a motor instruction of the VM issued is in flight.
MotionInFlight == motor.total_ticks > 0 /\ motor.motor_cb = "end_move_pause"

\* C15: from the moment the VM issues a motor instruction until the settling
\* pause that the motion's completion callback starts has expired, no task
\* executes an instruction.  Stated for the tasks that run while the motion
\* is in flight and for the task that runs right after the tick that
\* completed it and started the pause.
C15_NoInstructionDuringAMotion ==
    [][(ev'.op = "task"
          /\ (MotionInFlight \/ (ev.op = "motor_tick" /\ "motor_cb" \in ev.log))) =>
          ev'.opcode = -1]_vars

\* The motor and pen instructions, which defer the next instruction.
MoveOpcodes == (INSTR_FD..INSTR_PD) \cup (INSTR_FDRAW..INSTR_RTRAW)

\* C16: in a program that is running and not stopped, every executed motor or
\* pen instruction is eventually followed by the execution of a further
\* instruction of the program (one that is not itself a motor or pen
\* instruction), whatever its operand, zero steps for both motors included.
C16_EveryMoveIsFollowedByTheNextInstruction ==
    (ev.op = "task" /\ ev.opcode \in MoveOpcodes)
        ~> (ev.op = "task" /\ ev.opcode \notin MoveOpcodes \cup {-1})

\* C17: after PU or PD the next instruction is not executed before the servo
\* sequence that the instruction started has completed and the settling
\* pause has elapsed.  Stated for the task that the pause timer schedules:
\* while the servo sequence is still running it executes no instruction.
C17_PenMoveCompletesBeforeTheNextInstruction ==
    [][(ev.op = "pause" /\ servo.timer_armed /\ ev'.op = "task") =>
          ev'.opcode = -1]_vars

\* C18: an instruction task that was posted for a program since stopped or
\* replaced executes no instruction, not even of a program started
\* afterwards.  Stated for the first task that runs after run_program has
\* started a program while tasks were already queued (queue - ev.posts of
\* them): the queue is served in order, so that task is one of the old ones.
C18_StaleTaskExecutesNothing ==
    [][(ev.op = "run" /\ program_status = "RUNNING" /\ queue - ev.posts >= 1
          /\ ev'.op = "task") =>
          ev'.opcode = -1]_vars

\* C19: while a program is Running at most one continuation of the VM is
\* outstanding, counting the instruction tasks posted and not yet run, an
\* armed settling-pause timer and a motion in flight whose completion resumes
\* the VM.
C19_AtMostOneContinuation ==
    (program_status = "RUNNING") =>
        queue + (IF pause_armed THEN 1 ELSE 0)
              + (IF MotionInFlight THEN 1 ELSE 0) <= 1

\* C20: stop_program may be called in any state.  When it returns the status
\* is Idle and no motion is in flight: the motor driver has no ticks left to
\* run and no completion callback to invoke.  The task that stop_program has
\* posted then discards the program, every frame of its call stack and its
\* globals.
C20_StopDiscardsTheProgram ==
    [][/\ (ev'.op = "stop") =>
             /\ program_status' = "IDLE"
             /\ motor'.total_ticks = 0
             /\ motor'.motor_cb = "NULL"
             /\ queue' >= 1
       /\ (ev.op = "stop" /\ ev'.op = "task") =>
             /\ program' = NULL
             /\ stack' = NULL
             /\ globals' = NoGlobals
             /\ \A a \in Chain(heap, stack) : ~heap'[a].used]_vars

\* C21: when a movement requested with (left_steps, right_steps), not both
\* zero, completes, the left motor has made exactly |left_steps| physical
\* steps and the right motor exactly |right_steps|.
C21_EachMotorMakesItsSteps ==
    (engine.op = "tick" /\ engine.phase # "STATIONARY"
        /\ engine.current_phase = "STATIONARY") =>
        engine.made = << Abs(engine.request[1]), Abs(engine.request[2]) >>


\* C22: the callback of a request with a non-zero step count is invoked
\* exactly once: it has been invoked once whenever the request is no longer
\* in flight, and on a tick of the movement it is invoked exactly when the
\* tick ends the final phase (CRUISING of a movement without acceleration,
\* DECEL_2 of one with), which is when the engine becomes STATIONARY; on a
\* tick with no movement in flight no step is emitted, no stepper state
\* changes and the callback is not invoked.
C22_CompletionSignalledOnce ==
    /\ []((/\ engine.calls > 0 /\ engine.total_ticks = 0
           /\ engine.request[1] # 0 \/ engine.request[2] # 0
           /\ engine.motor_cb # "NULL") => engine.cbs = 1)
    /\ [][engine'.op = "tick" =>
             IF engine.total_ticks > 0
             THEN LET completes == engine'.current_phase = "STATIONARY"
                      final == IF engine.acceleration_active THEN "DECEL_2" ELSE "CRUISING"
                  IN /\ completes <=> engine'.total_ticks = 0
                     /\ completes => engine.current_phase = final
                     /\ engine'.cbs = IF completes /\ engine.motor_cb # "NULL"
                                      THEN engine.cbs + 1 ELSE engine.cbs
                     /\ engine'.cbs <= 1
             ELSE /\ engine'.cbs = engine.cbs
                  /\ engine'.stepper = engine.stepper
                  /\ engine'.current_step = engine.current_step
                  /\ engine'.stepped = <<FALSE, FALSE>>
                  /\ engine'.total_ticks = 0
                  /\ engine'.current_phase = engine.current_phase]_vars

\* C23: when an accelerated movement completes, the advances made over its
\* five phases number total_steps = max(|left_steps|, |right_steps|).
C23_AcceleratedAdvancesAreTotalSteps ==
    (/\ engine.op = "tick" /\ engine.request[4]
     /\ engine.phase # "STATIONARY" /\ engine.current_phase = "STATIONARY") =>
        engine.advances = Max2(Abs(engine.request[1]), Abs(engine.request[2]))

\* C24: when an accelerated movement that reaches full acceleration
\* (accel_duration <= total_steps / 2) completes, the advances made during
\* ACCEL_1 and ACCEL_2 and those made during DECEL_1 and DECEL_2 differ by
\* at most 1.
C24_RampsAreSymmetric ==
    (/\ engine.op = "tick" /\ engine.request[4]
     /\ engine.phase # "STATIONARY" /\ engine.current_phase = "STATIONARY"
     /\ engine.accel_duration <=
            Max2(Abs(engine.request[1]), Abs(engine.request[2])) \div 2) =>
        Abs(engine.ramp_up - engine.ramp_down) <= 1

\* 6 * a_d^2 times the half-profile displacement after m ticks: the cubic
\* m^3 / (6 a_d^2) up to a_d, and beyond it, with k = m - a_d,
\* -k^3 / (6 a_d^2) + k^2 / (2 a_d) + k / 2 + a_d / 6.
HalfProfileScaled(a_d, m) ==
    IF m <= a_d THEN m * m * m
    ELSE LET k == m - a_d
         IN -(k * k * k) + 3 * a_d * k * k + 3 * a_d * a_d * k + a_d * a_d * a_d

\* The engine has just taken a request for an accelerated movement with
\* accel_duration > total_steps / 2.
ShortMoveRequested ==
    /\ engine.op = "drive" /\ engine.request[4]
    /\ engine.accel_duration >
           Max2(Abs(engine.request[1]), Abs(engine.request[2])) \div 2

C26_ServoEndsAtClampedTarget ==
    (engine.pen.op = "tick" /\ engine.pen.done) =>
        LET requested == IF engine.pen.servo_pos = "UP"
                         THEN engine.pen.servo_up_angle
                         ELSE engine.pen.servo_down_angle
        IN engine.pen.servo_angle =
               (IF requested < -90 THEN -90 ELSE IF requested > 90 THEN 90
                ELSE requested)

\* A servo_down that followed a servo_up has completed in two steps whose
\* size, (-45 - 60) / 2 truncated, does not add up to the distance.
C26_Witness_DownAfterUpInTwoSteps ==
    /\ engine.pen.op = "tick" /\ engine.pen.done
    /\ engine.pen.servo_pos = "DOWN" /\ engine.pen.calls = 3
    /\ engine.pen.servo_move_steps = 2 /\ engine.pen.ticks = 2
    /\ engine.pen.servo_up_angle = 60 /\ engine.pen.servo_down_angle = -45
    /\ engine.pen.servo_step_size = -52 /\ engine.pen.servo_angle = -45

\* C27: a servo move ends on its servo_move_steps-th timer tick (the first
\* when 0 or 1 is configured) and on no earlier one; on that tick, and on no
\* other, the callback is invoked, once, and the timer is disarmed; and the
\* new pen position is written and broadcast on that tick, not before.
C27_ServoCompletesOnTheFinalTick ==
    engine.pen.op = "tick" =>
        /\ engine.pen.done <=>
               engine.pen.ticks = Max2(1, engine.pen.servo_move_steps)
        /\ engine.pen.armed <=> ~engine.pen.done
        /\ engine.pen.cbs =
               IF engine.pen.done /\ engine.pen.servo_cb # "NULL" THEN 1 ELSE 0
        /\ engine.pen.done => engine.pen.published = engine.pen.ticks

C29_FailedAllocationLeavesNothing ==
    [][/\ (ev'.op = "run" /\ "alloc_failed" \in ev'.log) =>
             /\ ev'.ret = "false"
             /\ program_status' = "IDLE"
             /\ program' = NULL
             /\ stack' = NULL /\ sp' = NULL
             /\ globals' = NoGlobals
             /\ AllocatedFrames(heap') \subseteq AllocatedFrames(heap)
       /\ (ev.op = "run" /\ "alloc_failed" \in ev.log /\ ev'.op = "task") =>
             ev'.opcode = -1]_vars

\* An os_malloc has failed inside a run_program that was called for a program
\* with globals while another program was running, and run_program has
\* returned false.
C29_Witness_AllocationFailed ==
    /\ ev.op = "run" /\ "alloc_failed" \in ev.log /\ ev.ret = "false"
    /\ "motors_stopped" \in ev.log
    /\ ev.prog # NULL /\ Programs(ev.prog).global_count > 0
    /\ program_status = "IDLE" /\ stack = NULL /\ queue > 0

\* C30: a request sets each motor's accumulator d to 2 * steps - total units
\* (total_steps with acceleration, tick_count without), and on each advance a
\* motor with steps > 0 makes a physical step exactly when its d is > 0
\* before the advance, d then losing 2 * total_steps, and d always gains
\* 2 * steps.
C30_StepsFollowTheReferenceDDA ==
    [][/\ (engine'.op = "drive" /\ engine'.total_steps > 0) =>
             \A ii \in 1..2 :
                engine'.stepper[ii].d =
                    2 * Abs(engine'.request[ii])
                      - (IF engine'.request[4] THEN engine'.total_steps
                         ELSE engine'.request[3])
       /\ (engine'.op = "tick" /\ engine'.advance) =>
             \A ii \in 1..2 :
                engine.stepper[ii].steps > 0 =>
                   /\ engine'.stepped[ii] <=> engine.stepper[ii].d > 0
                   /\ engine'.stepper[ii].d =
                          (IF engine.stepper[ii].d > 0
                           THEN engine.stepper[ii].d - 2 * engine.total_steps
                           ELSE engine.stepper[ii].d)
                          + 2 * engine.stepper[ii].steps]_vars

\* C33: every tick of a movement without acceleration makes one advance, and
\* the movement completes on the tick that brings the number of its ticks to
\* tick_count, having made tick_count advances.
C33_OneAdvancePerTickOfTheBudget ==
    [][(engine'.op = "tick" /\ engine.total_ticks > 0 /\ ~engine.request[4]) =>
          /\ engine'.advance
          /\ engine'.total_ticks = 0 <=> engine'.current_tick = engine.request[3]
          /\ engine'.total_ticks = 0 => engine'.advances = engine.request[3]]_vars

\* C34: right after a drive_motors call for a movement, also one that
\* interrupts a movement, phase_tick is 0, last_position is 0 and each motor's
\* stepper state is the one the request gives: its step count, the
\* accumulator 2 * steps - total units, no step emitted, and its direction.
C34_RequestStartsFromFreshState ==
    (engine.op = "drive" /\ engine.total_steps > 0) =>
        /\ engine.phase_tick = 0
        /\ engine.last_position = <<0, 0>>
        /\ \A ii \in 1..2 :
              engine.stepper[ii] =
                  [steps |-> Abs(engine.request[ii]),
                   d |-> 2 * Abs(engine.request[ii])
                           - (IF engine.request[4] THEN engine.total_steps
                              ELSE engine.request[3]),
                   step |-> 0, last_step |-> -1,
                   direction |-> IF engine.request[ii] > 0 THEN 1 ELSE W8 - 1]

\* The GPIO lines of one stepper: STEPPER_1_MASK and STEPPER_2_MASK.
StepperLines(ii) == UNION {step_values(ii, k) : k \in 0..STEP_SEQUENCE_COUNT - 1}

\* C35: each motor's phase index stays in 0..7, and a physical step moves the
\* index of the stepping motor by one modulo 8: down for every step of a
\* request with a positive count for that motor, up for every step of a
\* request with a negative count.
C35_PhaseIndexMovesByOneWithTheRequestsSign ==
    /\ [](\A ii \in 1..2 : engine.current_step[ii] \in 0..STEP_SEQUENCE_COUNT - 1)
    /\ [][(engine'.op = "tick" /\ engine.total_ticks > 0) =>
             \A ii \in 1..2 :
                engine'.stepped[ii] =>
                    engine'.current_step[ii] =
                        (engine.current_step[ii]
                           + (IF engine.request[ii] > 0 THEN -1 ELSE 1)
                           + STEP_SEQUENCE_COUNT) % STEP_SEQUENCE_COUNT]_vars

\* A tick on which both motors stepped, the left one of a positive request
\* down from index 0 to 7 and the right one of a negative request up to 1.
C35_Witness_OppositeStepsAcrossTheWrap ==
    /\ engine.op = "tick"
    /\ engine.stepped = <<TRUE, TRUE>>
    /\ engine.request[1] > 0 /\ engine.request[2] < 0
    /\ engine.made = <<1, 1>>
    /\ engine.current_step = <<STEP_SEQUENCE_COUNT - 1, 1>>

\* C36: a tick of a movement makes at most one GPIO write; its set mask and
\* clear mask are disjoint and lie within the lines of the motors that step
\* on this advance; a motor that does not step on the tick keeps its phase
\* index, none of its lines is written, and a motor whose requested count is
\* 0 does not step.
C36_OneWriteForTheSteppingMotorsOnly ==
    [][(engine'.op = "tick" /\ engine.total_ticks > 0) =>
          LET stepping == UNION {StepperLines(ii) : ii \in {k \in 1..2 : engine'.stepped[k]}}
          IN /\ Len(engine'.gpio) <= 1
             /\ Len(engine'.gpio) = 1 <=> (engine'.stepped[1] \/ engine'.stepped[2])
             /\ \A k \in 1..Len(engine'.gpio) :
                   /\ engine'.gpio[k].set_mask \cap engine'.gpio[k].clear_mask = {}
                   /\ engine'.gpio[k].set_mask \cup engine'.gpio[k].clear_mask
                         \subseteq stepping
                   /\ engine'.gpio[k].enable_mask \subseteq stepping
             /\ \A ii \in 1..2 :
                   /\ engine.request[ii] = 0 => ~engine'.stepped[ii]
                   /\ ~engine'.stepped[ii] =>
                         engine'.current_step[ii] = engine.current_step[ii]]_vars

\* An advance on which the left motor stepped and the right motor, which has
\* steps to make in this movement, did not: one write, on the left lines only.
C36_Witness_OneMotorStepsTheOtherWaits ==
    /\ engine.op = "tick" /\ engine.advance
    /\ engine.stepped = <<TRUE, FALSE>>
    /\ engine.request[2] # 0
    /\ Len(engine.gpio) = 1
    /\ engine.gpio[1].enable_mask = StepperLines(1)

\* The task's instruction leaves the flow of control to the program counter:
\* it is not CALL, RET, STOP or BR, nor a BRT or BRF whose condition, the top
\* of the operand stack, makes it jump.
FallsThrough(opcode) ==
    LET f == heap[sp]
        top == IF f.stack_size > 0 THEN f.stack[f.stack_size] ELSE 0
    IN /\ opcode \notin {INSTR_CALL, INSTR_RET, INSTR_STOP, INSTR_BR}
       /\ opcode = INSTR_BRT => top = 0
       /\ opcode = INSTR_BRF => top # 0

\* C31: an instruction with an opcode in 1..47 that does not alter the flow
\* of control and after which the program runs on leaves the program counter
\* in the same frame and function, advanced by the encoded length of the
\* opcode (5 with an immediate, 1 otherwise, the *RAW instructions included);
\* and the task finds the end of the function reached exactly when pc.idx
\* plus that length exceeds the length of the function.
C31_PcAdvancesByTheEncodedLength ==
    [][(/\ ev'.op = "task"
        /\ program_status = "RUNNING" /\ program # NULL
        /\ ev'.opcode \in INSTR_FD..INSTR_RTRAW) =>
          /\ (program_status' = "RUNNING" /\ FallsThrough(ev'.opcode)) =>
                /\ sp' = sp
                /\ heap'[sp].pc =
                      [func |-> heap[sp].pc.func,
                       idx |-> heap[sp].pc.idx + EncodedLength(ev'.opcode)]
          /\ "end_of_function" \in ev'.log <=>
                heap[sp].pc.idx + EncodedLength(ev'.opcode)
                    > Function(program, heap[sp].pc.func).length]_vars

\* The top of the operand stack of the current frame.
Top == heap[sp].stack[heap[sp].stack_size]

\* C32: with a value on the operand stack, BR sets pc.idx to an addr that is
\* at most the length of the function and leaves the operand stack as it
\* was; BRT and BRF pop exactly one value and set pc.idx to such an addr,
\* BRT iff the value is not 0 and BRF iff it is 0, and otherwise go on at
\* pc.idx + 5; a branch that jumps to an addr beyond the length of the
\* function is a fault and sets no program counter.
C32_BranchesJumpOrFallThrough ==
    [][(/\ ev'.op = "task"
        /\ program_status = "RUNNING" /\ program # NULL
        /\ InstructionFits
        /\ ev'.opcode \in {INSTR_BR, INSTR_BRT, INSTR_BRF}
        /\ ev'.opcode = INSTR_BR \/ heap[sp].stack_size > 0) =>
          LET f == heap[sp]
              addr == ev'.imm
              jumps == \/ ev'.opcode = INSTR_BR
                       \/ ev'.opcode = INSTR_BRT /\ Top # 0
                       \/ ev'.opcode = INSTR_BRF /\ Top = 0
              popped == IF ev'.opcode = INSTR_BR THEN 0 ELSE 1
              beyond == addr < 0 \/ addr > Function(program, f.pc.func).length
          IN IF jumps /\ beyond
             THEN /\ program_status' = "ERROR"
                  /\ ev'.fault = "branch"
                  /\ \A a \in AllocatedFrames(heap') : heap'[a].pc = heap[a].pc
             ELSE /\ program_status' = "RUNNING"
                  /\ sp' = sp
                  /\ heap'[sp].pc = [func |-> f.pc.func,
                                      idx |-> IF jumps THEN addr ELSE f.pc.idx + 5]
                  /\ heap'[sp].stack_size = f.stack_size - popped
                  /\ \A i \in 1..f.stack_size - popped :
                        heap'[sp].stack[i] = f.stack[i]]_vars

\* A BRF that found 0 on the stack has jumped, here to the length of the
\* function, and the value is gone from the stack.
C32_Witness_BrfJumpedToTheEnd ==
    /\ ev.op = "task" /\ ev.opcode = INSTR_BRF
    /\ program_status = "RUNNING"
    /\ heap[sp].pc.idx = ev.imm
    /\ ev.imm = Function(program, heap[sp].pc.func).length
    /\ heap[sp].stack_size = 0

\* The step counts a motor instruction asks for, from the operands on the
\* stack of the current frame, in plain integer arithmetic: <<left, right>>
\* before the signs of the instruction are applied.
AskedSteps(opcode) ==
    LET f == heap[sp]
        top == f.stack[f.stack_size]
    IN IF opcode \in {INSTR_FD, INSTR_BK}
       THEN << CDiv(top * straight_steps.left, 100),
               CDiv(top * straight_steps.right, 100) >>
       ELSE IF opcode \in {INSTR_LT, INSTR_RT}
       THEN << CDiv(top * turn_steps.left, 180), CDiv(top * turn_steps.right, 180) >>
       ELSE << f.stack[f.stack_size - 1], top >>

\* The signs of the left and the right step count of a motor instruction.
Signs(opcode) ==
    IF opcode \in {INSTR_FD, INSTR_FDRAW} THEN <<1, 1>>
    ELSE IF opcode \in {INSTR_BK, INSTR_BKRAW} THEN <<-1, -1>>
    ELSE IF opcode \in {INSTR_LT, INSTR_LTRAW} THEN <<-1, 1>>
    ELSE <<1, -1>>

\* C40: a motor instruction that finds its operands on the stack hands the
\* motion engine the step counts it asks for, with the signs of the
\* instruction, whatever the 32-bit operand values: the movement the engine
\* starts has the larger magnitude of the two as its total_steps and the
\* larger of the two counts as its tick budget (none when both are 0).
C40_EngineReceivesTheStepsAsked ==
    [][(/\ ev'.op = "task"
        /\ program_status = "RUNNING" /\ program # NULL
        /\ InstructionFits
        /\ ev'.opcode \in {INSTR_FD, INSTR_BK, INSTR_LT, INSTR_RT}
                              \cup (INSTR_FDRAW..INSTR_RTRAW)
        /\ heap[sp].stack_size >= (IF ev'.opcode >= INSTR_FDRAW THEN 2 ELSE 1)) =>
          LET asked == AskedSteps(ev'.opcode)
              left == Signs(ev'.opcode)[1] * asked[1]
              right == Signs(ev'.opcode)[2] * asked[2]
          IN /\ ev'.drive = <<left, right, Max2(asked[1], asked[2])>>
             /\ motor'.total_steps = Max2(Abs(left), Abs(right))
             /\ motor'.total_ticks = IF left = 0 /\ right = 0 THEN 0
                                      ELSE Max2(asked[1], asked[2])]_vars

\* C39: the frame run_program makes for a program it accepts has function 0
\* in its program counter, and the frame a successful CALL n makes has
\* function n, whatever the id fields of the function records hold.
C39_FrameRunsTheFunctionAtItsIndex ==
    /\ (ev.op = "run" /\ program_status = "RUNNING" /\ sp # NULL) =>
          heap[sp].pc = [func |-> 0, idx |-> 0]
    /\ (/\ ev.op = "task" /\ ev.opcode = INSTR_CALL
        /\ program_status = "RUNNING" /\ sp # NULL /\ sp # ev.pre_sp) =>
          heap[sp].pc = [func |-> ev.imm, idx |-> 0]

\* The number of frames of the call stack.
Depth(h, first) == Cardinality(Chain(h, first))

\* C37: while the status is Running the stack pointer is the last frame of
\* the chain that starts at the frame run_program made; that first frame has
\* no caller, every other frame's caller is the frame before it in the
\* chain, the frame that executed its CALL, and the current frame has no
\* callee.  The chain has one frame after run_program, one more after every
\* CALL, one less after every RET, and as many after any other instruction.
C37_StackIsAChainEndingAtSp ==
    /\ [](program_status = "RUNNING" =>
            /\ stack # NULL /\ sp # NULL
            /\ heap[stack].prev = NULL
            /\ sp \in Chain(heap, stack)
            /\ heap[sp].next = NULL
            /\ \A a \in Chain(heap, stack) :
                  /\ heap[a].used
                  /\ a # stack =>
                        heap[a].prev # NULL /\ heap[heap[a].prev].next = a)
    /\ [][(ev'.op = "run" /\ program_status' = "RUNNING") =>
             Depth(heap', stack') = 1]_vars
    /\ [][(/\ ev'.op = "task" /\ ev'.opcode # -1
           /\ program_status = "RUNNING" /\ program_status' = "RUNNING") =>
             CASE ev'.opcode = INSTR_CALL ->
                    /\ Depth(heap', stack') = Depth(heap, stack) + 1
                    /\ sp' # sp /\ heap'[sp'].prev = sp
               [] ev'.opcode = INSTR_RET ->
                    /\ Depth(heap', stack') = Depth(heap, stack) - 1
                    /\ sp' = heap[sp].prev
               [] OTHER ->
                    /\ Depth(heap', stack') = Depth(heap, stack)
                    /\ sp' = sp]_vars

\* A RET at call depth 3 has made the frame of its caller, the second of
\* the chain, the current one.
C37_Witness_ReturnedToTheSecondFrame ==
    /\ ev.op = "task" /\ ev.opcode = INSTR_RET
    /\ program_status = "RUNNING"
    /\ Depth(heap, stack) = 2
    /\ sp # stack /\ heap[sp].prev = stack /\ heap[stack].next = sp

\* C38: the operand stack of every frame holds between 0 and max_stack_size
\* values in its max_stack_size slots, no slot beyond them being written;
\* max_stack_size is the stack_size declared by the function the frame was
\* made for, function 0 for the frame of run_program and function n for the
\* frame of a CALL n, and stays what it is while the frame is on the stack.
C38_OperandStackWithinItsCapacity ==
    /\ [](\A a \in AllocatedFrames(heap) :
            /\ heap[a].stack_size \in 0..heap[a].max_stack_size
            /\ DOMAIN heap[a].stack = 1..heap[a].max_stack_size)
    /\ [][(ev'.op = "run" /\ program_status' = "RUNNING") =>
             heap'[sp'].max_stack_size = Function(program', 0).stack_size]_vars
    /\ [][(/\ ev'.op = "task" /\ program_status = "RUNNING"
           /\ program_status' = "RUNNING") =>
             /\ (ev'.opcode = INSTR_CALL /\ sp' # sp) =>
                   heap'[sp'].max_stack_size = Function(program, ev'.imm).stack_size
             /\ \A a \in Chain(heap, stack) \cap Chain(heap', stack') :
                   heap'[a].max_stack_size = heap[a].max_stack_size]_vars

\* A push on a full operand stack was refused: the stack holds its
\* max_stack_size values.
C38_Witness_PushOnAFullStack ==
    /\ ev.op = "task" /\ "overflow" \in ev.log
    /\ program_status = "RUNNING"
    /\ heap[sp].max_stack_size > 0
    /\ heap[sp].stack_size = heap[sp].max_stack_size

====
